---- MODULE Spec2Model ----
(***************************************************************************)
(* State-machine model of the GitHub request client of lgtm                *)
(* (GitHubApiClient: lazy initialisation, rate-limit tracking, the retry   *)
(* loop of request()), of the error taxonomy (wrapError), of AuthService   *)
(* (token login, the device flow, isAuthenticated, logout and the          *)
(* credential store) and of the auth login and approve commands.           *)
(*                                                                         *)
(* JavaScript runs one callback at a time, so every action below is the    *)
(* code that runs between two awaits of one operation.                     *)
(***************************************************************************)
EXTENDS Integers, Sequences, FiniteSets, TLC

(***************************************************************************)
(* Bounds of the model.                                                    *)
(***************************************************************************)
\* number of request() calls that may be in progress at once on the client
NumCallers == 2
\* number of request() calls made in one run
MaxRequests == 2
\* the clock runs from 0 to MaxNow (epoch seconds)
MaxNow == 2
\* quota of the remote service per window
SrvLimit == 2

\* length of a quota window of the remote service, in seconds
SrvWindow == MaxNow - 1

Callers == 1..NumCallers

(***************************************************************************)
(* Program constants.                                                      *)
(***************************************************************************)
\* DEFAULT_CONFIG.github.maxRetryCount, also the fallback of config.get
DefaultMaxRetryCount == 3
\* base of the exponential backoff, in milliseconds
BackoffBaseMs == 1000
\* default reset of wrapError's RateLimitError: 60 * 60 seconds from now
DefaultResetSeconds == 3600
\* parseInt of a string that does not start with digits
NaN == -1000000
\* options.maxRetries left out by the caller
Undefined == -1
\* statusCode of CustomError when none is given
NoStatus == 0

(***************************************************************************)
(* Header values.  A header is a string or is absent; what the code does   *)
(* with it is a truthiness test and parseInt(value, 10).                   *)
(***************************************************************************)
HAbsent == [k |-> "absent", v |-> 0]
HJunk == [k |-> "junk", v |-> 0]
HInt(n) == [k |-> "int", v |-> n]

\* JavaScript truthiness of a header value: undefined is falsy, a non-empty
\* string (also "0") is truthy
Truthy(h) == h.k # "absent"

\* parseInt(h, 10)
ParseInt(h) == IF h.k = "int" THEN h.v ELSE NaN

\* x <= 0 in JavaScript: false when x is NaN
LeqZero(x) == x # NaN /\ x <= 0

\* the header object of a response; present = FALSE is an error object
\* without a headers property
NoHeaders ==
  [present |-> FALSE, limit |-> HAbsent, remaining |-> HAbsent, reset |-> HAbsent]

HeaderShapes == {"good", "none", "noreset", "junk"}

\* the header set a response carries, given the counters of the remote service
MkHeaders(shape, lim, rem, rst) ==
  CASE shape = "good" ->
         [present |-> TRUE, limit |-> HInt(lim), remaining |-> HInt(rem), reset |-> HInt(rst)]
    [] shape = "noreset" ->
         [present |-> TRUE, limit |-> HInt(lim), remaining |-> HInt(rem), reset |-> HAbsent]
    [] shape = "junk" ->
         [present |-> TRUE, limit |-> HInt(lim), remaining |-> HJunk, reset |-> HInt(rst)]
    [] OTHER -> NoHeaders

\* all three rate-limit headers are present and are well-formed integers
WellFormed(h) ==
  h.present /\ h.limit.k = "int" /\ h.remaining.k = "int" /\ h.reset.k = "int"

(***************************************************************************)
(* Error values.  cls is the JavaScript class of the thrown value:         *)
(* "Object" a plain object, "Error" a library Error instance (Octokit's    *)
(* RequestError), the others the classes of utils/errors.                  *)
(***************************************************************************)
MsgRateLimit == "API rate limit exceeded"
MsgServer == "Server Error"
MsgNotFound == "Not Found"
MsgNone == ""
MsgNoAuthentication == "No authentication available. Please run lgtm auth login first."
MsgNotAuthenticated == "Not authenticated. Please run lgtm auth login first."

\* /rate limit/i.test(message)
RateLimitText(msg) == msg \in {MsgRateLimit, "GitHub API rate limit exceeded"}

CustomClasses ==
  {"CustomError", "ApiError", "AuthError", "RateLimitError", "ConfigError",
   "RepositoryError", "PermissionError", "ValidationError", "NotFoundError"}

\* error instanceof CustomError
IsCustomError(e) == e.cls \in CustomClasses

\* error instanceof Error
IsError(e) == e.cls = "Error" \/ IsCustomError(e)

\* context is the optional context argument of the constructors: "none" when
\* left out, "originalError" for { originalError: anyError }
MkError(cls, code, status, msg, reset) ==
  [cls |-> cls, code |-> code, status |-> status, msg |-> msg, reset |-> reset,
   context |-> "none"]

\* the error e constructed with the context argument c
WithContext(e, c) == [e EXCEPT !.context = c]

\* a raw failure thrown by the HTTP transport
RawError(cls, status, msg) == MkError(cls, "", status, msg, 0)

CustomError(msg, code, status) == MkError("CustomError", code, status, msg, 0)
AuthError(msg) == MkError("AuthError", "AUTH_ERROR", 401, msg, 0)
NotFoundError(msg) == MkError("NotFoundError", "NOT_FOUND_ERROR", 404, msg, 0)
RateLimitError(msg, resetTimestamp) ==
  MkError("RateLimitError", "RATE_LIMIT_ERROR", 429, msg, resetTimestamp)
ApiError(msg, status) == MkError("ApiError", "API_ERROR", status, msg, 0)
ConfigError(msg) == MkError("ConfigError", "CONFIG_ERROR", NoStatus, msg, 0)
RepositoryError(msg) == MkError("RepositoryError", "REPOSITORY_ERROR", NoStatus, msg, 0)
PermissionError(msg) == MkError("PermissionError", "PERMISSION_ERROR", 403, msg, 0)
ValidationError(msg) == MkError("ValidationError", "VALIDATION_ERROR", 400, msg, 0)

NoError == MkError("none", "", NoStatus, "", 0)

\* wrapError for a value that is no Error instance ("Handle API errors"
\* down to the generic fallback), called at time t; hdr is error.headers
wrapPlain(e, hdr, t) ==
  IF e.status = 401 \/ e.status = 403 THEN
    WithContext(AuthError(IF e.msg = MsgNone THEN "Authentication failed" ELSE e.msg),
                "originalError")
  ELSE IF e.status = 404 THEN
    WithContext(NotFoundError(IF e.msg = MsgNone THEN "Resource not found" ELSE e.msg),
                "originalError")
  ELSE IF e.status = 429 \/ (e.msg # MsgNone /\ RateLimitText(e.msg)) THEN
    WithContext(
      RateLimitError(IF e.msg = MsgNone THEN "API rate limit exceeded" ELSE e.msg,
                     IF hdr.present /\ Truthy(hdr.reset)
                       THEN ParseInt(hdr.reset)
                       ELSE t + DefaultResetSeconds),
      "originalError")
  ELSE IF e.msg # MsgNone THEN CustomError(e.msg, "UNKNOWN_ERROR", e.status)
  ELSE CustomError("An unexpected error occurred", "UNKNOWN_ERROR", NoStatus)

\* wrapError that hands a library Error instance back as it is
wrapErrorKeepsErrors(e, hdr, t) ==
  IF IsError(e) THEN e ELSE wrapPlain(e, hdr, t)

\* wrapError without the test for an error that is typed already
wrapErrorRewraps(e, hdr, t) ==
  IF IsError(e) THEN CustomError(e.msg, "UNKNOWN_ERROR", NoStatus)
  ELSE wrapPlain(e, hdr, t)

\* wrapError(error, defaultMessage) called at time t; hdr is error.headers
wrapError(e, hdr, t) ==
  IF IsCustomError(e) THEN e
  ELSE IF IsError(e) THEN CustomError(e.msg, "UNKNOWN_ERROR", NoStatus)
  ELSE wrapPlain(e, hdr, t)

(***************************************************************************)
(* The rate-limit tracker of GitHubApiClient.                              *)
(***************************************************************************)
MkInfo(lim, rem, rst, limited) ==
  [limit |-> lim, remaining |-> rem, resetTimestamp |-> rst, isLimited |-> limited]

\* the field initialiser of GitHubApiClient.rateLimitInfo
InitialRateLimitInfo == MkInfo(0, 0, 0, FALSE)

\* _updateRateLimitInfo that leaves the isLimited field as it was
updateRateLimitInfoKeepFlag(info, headers) ==
  IF Truthy(headers.limit) /\ Truthy(headers.remaining) /\ Truthy(headers.reset)
    THEN MkInfo(ParseInt(headers.limit), ParseInt(headers.remaining),
                ParseInt(headers.reset), info.isLimited)
    ELSE info

\* _updateRateLimitInfo(headers): the tracked state after the call
updateRateLimitInfo(info, headers) ==
  IF Truthy(headers.limit) /\ Truthy(headers.remaining) /\ Truthy(headers.reset)
    THEN MkInfo(ParseInt(headers.limit), ParseInt(headers.remaining),
                ParseInt(headers.reset), LeqZero(ParseInt(headers.remaining)))
    ELSE info

\* the assignment of _fetchRateLimitInfo from response.data.resources.core
fetchedRateLimitInfo(core) ==
  MkInfo(core.limit, core.remaining, core.reset, core.remaining <= 0)

\* the pre-request check with < in place of ===
rateLimitedBelowZero(info) == info.remaining < 0

\* the pre-request check of request(): this.rateLimitInfo.remaining === 0
rateLimited(info) == info.remaining = 0

(***************************************************************************)
(* The retry loop of request().                                            *)
(***************************************************************************)
RECURSIVE Pow2(_)
Pow2(n) == IF n <= 0 THEN 1 ELSE 2 * Pow2(n - 1)

\* options.maxRetries || this.config.get('github.maxRetryCount', 3)
effectiveMaxRetries(optMaxRetries) ==
  IF optMaxRetries = Undefined \/ optMaxRetries = 0
    THEN DefaultMaxRetryCount
    ELSE optMaxRetries

\* the retry condition with retries <= maxRetries
shouldRetryInclusive(o, status, retries) ==
  /\ o.retry
  /\ status >= 500
  /\ status < 600
  /\ retries <= effectiveMaxRetries(o.maxRetries)

\* the retry condition with the client errors taken in as well
shouldRetryClientErrors(o, status, retries) ==
  /\ o.retry
  /\ status >= 400
  /\ status < 600
  /\ retries < effectiveMaxRetries(o.maxRetries)

\* the condition of "Retry on server errors"
shouldRetry(o, status, retries) ==
  /\ o.retry
  /\ status >= 500
  /\ status < 600
  /\ retries < effectiveMaxRetries(o.maxRetries)

\* the delay computed from retries instead of retries - 1
backoffDelayLate(retries) == BackoffBaseMs * Pow2(retries)

\* const delay = 1000 * Math.pow(2, retries - 1), retries already incremented
backoffDelay(retries) == BackoffBaseMs * Pow2(retries - 1)

\* the rate-limit test looking for status 429 instead of 403
isRateLimitFailure429(e) == e.status = 429 /\ RateLimitText(e.msg)

\* "Handle rate limiting": status 403 and /rate limit/i on the message
isRateLimitFailure(e) == e.status = 403 /\ RateLimitText(e.msg)

\* what request() throws for the failure e that it does not retry, at time
\* t: the RateLimitError of "Handle rate limiting" with the tracked reset
\* time of info, or wrapError(requestError); either passes through
\* wrapError again in the outer catch block
requestThrows(e, headers, info, t) ==
  IF isRateLimitFailure(e)
    THEN wrapError(RateLimitError("GitHub API rate limit exceeded", info.resetTimestamp),
                   NoHeaders, t)
    ELSE wrapError(wrapError(e, headers, t), NoHeaders, t)

(***************************************************************************)
(* The credential store: one entry of the secret store, under the service  *)
(* name and the account name, holding the JSON text of the credentials.    *)
(***************************************************************************)
\* the value undefined of a property
UndefinedValue == "undefined"

\* the tokens a user may hold and the login names of their accounts
Tokens == {"t1", "t2"}

Usernames == {"u1", "u2"}

\* data.login of the identity endpoint for a token it accepts
loginOf(t) == IF t = "t1" THEN "u1" ELSE "u2"

\* AuthMethod
AuthMethods == {"browser", "token"}

\* the objects saveCredentials may be given: username is optional
AuthCredentials ==
  [token : Tokens, username : Usernames \cup {UndefinedValue}, method : AuthMethods]

\* null
NoCredentials == [null |-> "null"]

\* keytar.getPassword finds no entry
NoPassword == << >>

\* an entry whose text is not JSON
JunkPassword == << <<"junk">> >>

Defined(kv) == kv[2] # UndefinedValue

\* JSON.stringify of a credentials object: the properties in the order
\* they were written, a property whose value is undefined left out
stringify(c) ==
  SelectSeq(<< <<"token", c.token>>, <<"username", c.username>>,
               <<"method", c.method>> >>, Defined)

\* JSON.parse accepts the text
Parsable(text) == \A i \in DOMAIN text : Len(text[i]) = 2

parseTokenOnly(text) == [k \in {"token"} |-> text[1][2]]

\* JSON.parse of a text it accepts: an object with the properties of the text
parse(text) ==
  [k \in {text[i][1] : i \in DOMAIN text} |->
     LET i == CHOOSE j \in DOMAIN text : text[j][1] = k IN text[i][2]]

\* reading a property of an object: undefined when the object has none
prop(o, k) == IF k \in DOMAIN o THEN o[k] ELSE UndefinedValue

\* deep equality that takes a missing property and an undefined one as equal
deepEqual(a, b) ==
  \A k \in DOMAIN a \cup DOMAIN b : prop(a, k) = prop(b, k)

getCredentialsTrusting(password, readOk) ==
  IF readOk /\ password # NoPassword THEN [token |-> "junk"] ELSE NoCredentials

\* getCredentials(): null when getPassword throws, finds nothing or
\* returns a text JSON.parse throws on; the parsed object otherwise
getCredentials(password, readOk) ==
  IF ~readOk THEN NoCredentials
  ELSE IF password = NoPassword THEN NoCredentials
  ELSE IF ~Parsable(password) THEN NoCredentials
  ELSE parse(password)

\* what saveCredentials leaves in the store: setPassword replaces the text
\* of the entry when it succeeds
setPasswordMerging(password, c, ok) ==
  IF ~ok THEN password
  ELSE IF password = NoPassword \/ ~Parsable(password) THEN stringify(c)
  ELSE stringify([token |-> c.token, username |-> prop(parse(password), "username"),
                  method |-> c.method])

setPassword(password, c, ok) == IF ok THEN stringify(c) ELSE password

\* what keytar.deletePassword leaves in the store
deletePassword(password, ok) == IF ok THEN NoPassword ELSE password

\* the store the request client is run against: empty, or the credential
\* of an earlier login
SavedLogin == [token |-> "t1", username |-> loginOf("t1"), method |-> "token"]

StoredAtStart == {NoPassword, stringify(SavedLogin)}

(***************************************************************************)
(* State.                                                                  *)
(***************************************************************************)
VARIABLES
  now,            \* the clock, epoch seconds
  srv,            \* the remote service's quota window: remaining, reset
  cred,           \* the text of the entry in the secret store
  authOctokit,    \* AuthService.octokit is set
  octokit,        \* GitHubApiClient.octokit is set
  initialized,    \* GitHubApiClient.initialized
  rateLimitInfo,  \* GitHubApiClient.rateLimitInfo
  pc,             \* where each request() call stands
  opts,           \* the options of each request() call
  retries,        \* the local variable retries of each request() call
  resp,           \* the transport's answer each call is waiting to process
  result,         \* what each request() call returned or threw
  calls,          \* transport calls of the route made by each request() call
  sleeps,         \* the backoff delays each request() call has slept, in order
  answers,        \* the statuses the transport answered to each call, in order
  ready,          \* the latest request() call found the client initialised
  started,        \* number of request() calls made so far
  failure,        \* a value thrown at the error classifier, with its headers
  classified,     \* what the successive wrapError calls made of it, in order
  viaRequest,     \* the first classification was the catch block of request()
  loginPc,        \* where the login operation of AuthService stands
  method,         \* the AuthMethod of the login operation
  pollRetries,    \* the local variable retries of pollForToken
  interval,       \* the local variable interval of pollForToken, in microseconds
  loginResp,      \* the latest answer the login operation has received
  loginResult,    \* what the login operation returned or threw
  deviceRequests, \* requests sent to the device-code endpoint
  polls,          \* requests sent to the token endpoint
  saveCalls,      \* calls of keytar.setPassword
  pendingOnly,    \* every answer of the token endpoint so far was
                  \* authorization_pending, but for a last one with a token
  pollThrew,      \* a request to the token endpoint has thrown
  opens,          \* calls of open(url)
  token,          \* the token the login in progress validates
  saved,          \* the object saveCredentials was last given
  loaded,         \* what getCredentials last returned
  history,        \* the operations of AuthService called so far
  cmd,            \* where the auth login command stands
  approve         \* the approve command: its options, position and effects

vars ==
  <<now, srv, cred, authOctokit, octokit, initialized, rateLimitInfo,
    pc, opts, retries, resp, result, calls, sleeps, answers, ready, started,
    failure, classified, viaRequest,
    loginPc, method, pollRetries, interval, loginResp, loginResult,
    deviceRequests, polls, saveCalls, pendingOnly, pollThrew, opens,
    token, saved, loaded, history, cmd, approve>>

clientVars == <<octokit, initialized, rateLimitInfo>>
callVars == <<pc, opts, retries, resp, result, calls, sleeps, answers>>
classifyVars == <<failure, classified, viaRequest>>
loginVars ==
  <<loginPc, method, pollRetries, interval, loginResp, loginResult,
    deviceRequests, polls, saveCalls, pendingOnly, pollThrew, opens,
    token, saved, loaded, history, cmd>>


\* what the operations of AuthService keep besides the login in progress
sessionVars == <<token, saved, loaded, history, cmd>>
\* the options a caller may pass: retry, and maxRetries left out or given
AllOptions == [retry : BOOLEAN, maxRetries : {Undefined, 0, 1, 3}]

NoOptions == [retry |-> TRUE, maxRetries |-> Undefined]

\* what the transport can answer: a success, or a thrown failure
Outcomes ==
  { [status |-> 200, cls |-> "none", msg |-> MsgNone],
    [status |-> 500, cls |-> "Error", msg |-> MsgServer],
    [status |-> 403, cls |-> "Error", msg |-> MsgRateLimit],
    [status |-> 404, cls |-> "Object", msg |-> MsgNotFound] }

\* every answer with every shape of rate-limit headers
AllResponses == Outcomes \X HeaderShapes

\* the options and answers of the runs with several concurrent callers
ConcurrentOptions == {[retry |-> TRUE, maxRetries |-> 1]}
PlainResponses == {o \in Outcomes : o.status \in {200, 500}} \X {"good", "none"}

NoResponse == [status |-> 0, cls |-> "none", msg |-> MsgNone, headers |-> NoHeaders]

NoResult == [kind |-> "none", err |-> NoError]
Returned == [kind |-> "ok", err |-> NoError]
Threw(e) == [kind |-> "err", err |-> e]

\* the quota window the remote service is in at time t
srvAt(t) ==
  IF t >= srv.reset
    THEN [remaining |-> SrvLimit, reset |-> t + SrvWindow]
    ELSE srv

\* no value has been thrown at the classifier
NoFailure == [e |-> NoError, headers |-> NoHeaders]

\* no approve command has been started
NoApproval ==
  [pc |-> "idle", pullNumber |-> 0, force |-> FALSE, comment |-> "",
   ciStatus |-> "unfetched",
   prompts |-> 0, shouldApprove |-> "none", approvals |-> 0, sent |-> "",
   result |-> "none"]

\* the client, its callers and the remote service after construction, with
\* one of the given texts in the secret store
InitClientWith(stores) ==
  /\ now = 0
  /\ srv \in [remaining : 0..SrvLimit, reset : {SrvWindow}]
  /\ cred \in stores
  /\ authOctokit = FALSE
  /\ octokit = FALSE
  /\ initialized = FALSE
  /\ rateLimitInfo = InitialRateLimitInfo
  /\ pc = [p \in Callers |-> "idle"]
  /\ opts = [p \in Callers |-> NoOptions]
  /\ retries = [p \in Callers |-> 0]
  /\ resp = [p \in Callers |-> NoResponse]
  /\ result = [p \in Callers |-> NoResult]
  /\ calls = [p \in Callers |-> 0]
  /\ sleeps = [p \in Callers |-> << >>]
  /\ answers = [p \in Callers |-> << >>]
  /\ ready = FALSE
  /\ started = 0
  /\ approve = NoApproval

InitClient == InitClientWith(StoredAtStart)

\* no token has been given
NoToken == ""

\* no login operation has been started
InitAuth ==
  /\ loginPc = "idle"
  /\ method = "none"
  /\ pollRetries = 0
  /\ interval = 0
  /\ loginResp = "none"
  /\ loginResult = NoResult
  /\ deviceRequests = 0
  /\ polls = 0
  /\ saveCalls = 0
  /\ pendingOnly = TRUE
  /\ pollThrew = FALSE
  /\ opens = 0
  /\ token = NoToken
  /\ saved = NoCredentials
  /\ loaded = NoCredentials
  /\ history = << >>
  /\ cmd = "none"

Init ==
  /\ InitClient
  /\ InitAuth
  /\ failure = NoFailure
  /\ classified = << >>
  /\ viaRequest = FALSE

(***************************************************************************)
(* request(), from the rate-limit check to the first transport call: the   *)
(* code after "await this.initialize()".  info is the tracked state the    *)
(* check reads and ok says whether this.octokit is set.                    *)
(***************************************************************************)
Proceed(p, info, ok) ==
  IF ~ok THEN
    /\ pc' = [pc EXCEPT ![p] = "done"]
    /\ result' = [result EXCEPT ![p] = Threw(AuthError("GitHub API client not initialized"))]
    /\ calls' = calls
  ELSE IF rateLimited(info) THEN
    /\ pc' = [pc EXCEPT ![p] = "done"]
    /\ result' = [result EXCEPT ![p] =
                    Threw(RateLimitError("GitHub API rate limit exceeded",
                                         info.resetTimestamp))]
    /\ calls' = calls
  ELSE
    /\ pc' = [pc EXCEPT ![p] = "call"]
    /\ result' = result
    /\ calls' = [calls EXCEPT ![p] = 1]

\* a caller calls request(route, params, options)
Request(p, options) ==
  /\ pc[p] = "idle"
  /\ started < MaxRequests
  /\ started' = started + 1
  /\ \E o \in options : opts' = [opts EXCEPT ![p] = o]
  /\ ready' = (initialized /\ octokit)
  /\ IF initialized /\ octokit
       THEN Proceed(p, rateLimitInfo, octokit)
       ELSE /\ pc' = [pc EXCEPT ![p] = "init_auth"]
            /\ UNCHANGED <<result, calls>>
  /\ UNCHANGED <<now, srv, cred, authOctokit, clientVars, retries, resp, sleeps, answers>>
  /\ UNCHANGED <<classifyVars, loginVars, approve>>

(***************************************************************************)
(* initialize(), one action per await.                                     *)
(***************************************************************************)
\* the user the identity endpoint reports for the stored token
UserOf(credentials) == [login |-> loginOf(credentials.token)]

\* null, the value getAuthStatus returns for "not authenticated"
NoUser == [login |-> UndefinedValue]

getAuthStatusWithoutCredentials(credentials, idOk) ==
  IF idOk THEN UserOf([token |-> "t1"]) ELSE NoUser

\* getAuthStatus(): null without credentials and when the identity request
\* throws, the user otherwise
getAuthStatus(credentials, idOk) ==
  IF credentials = NoCredentials THEN NoUser
  ELSE IF ~idOk THEN NoUser
  ELSE UserOf(credentials)

\* isAuthenticated(): status !== null
isAuthenticated(status) == status # NoUser

\* what request() throws when initialize() throws e: wrapError in both
\* catch blocks of initialize() and in the catch block of request()
initializeFailure(e, t) == wrapError(wrapError(wrapError(e, NoHeaders, t), NoHeaders, t), NoHeaders, t)

\* "await this.authService.isAuthenticated()" settles: getAuthStatus() has
\* read the credential (readOk), built AuthService.octokit from it and
\* asked the remote service who the user is (idOk)
InitAuthDone(p) ==
  /\ pc[p] = "init_auth"
  /\ \E readOk \in BOOLEAN, idOk \in BOOLEAN :
       LET credentials == getCredentials(cred, readOk)
           status == getAuthStatus(credentials, idOk)
       IN /\ authOctokit' = (authOctokit \/ credentials # NoCredentials)
          /\ IF isAuthenticated(status)
               THEN /\ pc' = [pc EXCEPT ![p] = "init_octokit"]
                    /\ result' = result
               ELSE /\ pc' = [pc EXCEPT ![p] = "done"]
                    /\ result' = [result EXCEPT ![p] =
                         Threw(initializeFailure(
                           AuthError(MsgNoAuthentication),
                           now))]
  /\ UNCHANGED <<now, srv, cred, clientVars, opts, retries, resp, calls, sleeps, answers, ready, started>>
  /\ UNCHANGED <<classifyVars, loginVars, approve>>

\* "await this.authService.getOctokit()" settles; on success
\* _fetchRateLimitInfo() sends GET /rate_limit
InitOctokitDone(p) ==
  /\ pc[p] = "init_octokit"
  /\ IF authOctokit \/ getCredentials(cred, TRUE) # NoCredentials
       THEN /\ authOctokit' = TRUE
            /\ octokit' = TRUE
            /\ pc' = [pc EXCEPT ![p] = "init_fetch"]
            /\ result' = result
       ELSE /\ UNCHANGED <<authOctokit, octokit>>
            /\ pc' = [pc EXCEPT ![p] = "done"]
            /\ result' = [result EXCEPT ![p] =
                 Threw(initializeFailure(
                   RawError("Error", NoStatus, MsgNotAuthenticated),
                   now))]
  /\ UNCHANGED <<now, srv, cred, initialized, rateLimitInfo, opts, retries, resp,
                 calls, sleeps, answers, ready, started>>
  /\ UNCHANGED <<classifyVars, loginVars, approve>>

\* GET /rate_limit settles (an error is ignored), initialize() returns and
\* request() goes on to its rate-limit check
InitFetchDone(p) ==
  /\ pc[p] = "init_fetch"
  /\ \E fetchOk \in BOOLEAN :
       LET w == srvAt(now)
           info == IF fetchOk
                     THEN fetchedRateLimitInfo(
                            [limit |-> SrvLimit, remaining |-> w.remaining, reset |-> w.reset])
                     ELSE rateLimitInfo
       IN /\ srv' = IF fetchOk THEN w ELSE srv
          /\ rateLimitInfo' = info
          /\ initialized' = TRUE
          /\ Proceed(p, info, octokit)
  /\ UNCHANGED <<now, cred, authOctokit, octokit, opts, retries, resp, sleeps, answers, ready, started>>
  /\ UNCHANGED <<classifyVars, loginVars, approve>>

(***************************************************************************)
(* The transport and the retry loop.                                       *)
(***************************************************************************)
\* the remote service answers the call that is in flight: a request that
\* finds the quota used up is not answered with a success
ServerAnswer(p, responses) ==
  /\ pc[p] = "call"
  /\ \E a \in responses :
       LET o == a[1]
           shape == a[2]
           w == srvAt(now)
           rem == IF w.remaining > 0 THEN w.remaining - 1 ELSE 0
       IN /\ w.remaining = 0 => o.status # 200
          /\ srv' = [w EXCEPT !.remaining = rem]
          /\ resp' = [resp EXCEPT ![p] =
               [status |-> o.status, cls |-> o.cls, msg |-> o.msg,
                headers |-> MkHeaders(shape, SrvLimit, rem, w.reset)]]
          /\ answers' = [answers EXCEPT ![p] = Append(@, o.status)]
  /\ pc' = [pc EXCEPT ![p] = "answered"]
  /\ UNCHANGED <<now, cred, authOctokit, clientVars, opts, retries, result, calls, sleeps,
                 ready, started>>
  /\ UNCHANGED <<classifyVars, loginVars, approve>>

\* the tracked state when only a success feeds its headers
trackedAfterSuccessOnly(info, r) ==
  IF r.status = 200 THEN updateRateLimitInfo(info, r.headers) ELSE info

\* the tracked state after the response r was processed: a success always
\* feeds response.headers, a failure only when requestError.headers is set
trackedAfter(info, r) ==
  IF r.status = 200 \/ r.headers.present
    THEN updateRateLimitInfo(info, r.headers)
    ELSE info

\* "await this.octokit.request(route, params)" settles: one pass through
\* the body of the while loop
Deliver(p) ==
  /\ pc[p] = "answered"
  /\ LET r == resp[p]
         e == RawError(r.cls, r.status, r.msg)
         info == trackedAfter(rateLimitInfo, r)
     IN /\ rateLimitInfo' = info
        /\ IF r.status = 200 THEN
             /\ pc' = [pc EXCEPT ![p] = "done"]
             /\ result' = [result EXCEPT ![p] = Returned]
             /\ UNCHANGED <<retries, sleeps>>
           ELSE IF ~isRateLimitFailure(e) /\ shouldRetry(opts[p], r.status, retries[p]) THEN
             /\ pc' = [pc EXCEPT ![p] = "sleep"]
             /\ retries' = [retries EXCEPT ![p] = @ + 1]
             /\ sleeps' = [sleeps EXCEPT ![p] = Append(@, backoffDelay(retries[p] + 1))]
             /\ result' = result
           ELSE
             /\ pc' = [pc EXCEPT ![p] = "done"]
             /\ result' = [result EXCEPT ![p] =
                  Threw(requestThrows(e, r.headers, info, now))]
             /\ UNCHANGED <<retries, sleeps>>
  /\ resp' = [resp EXCEPT ![p] = NoResponse]
  /\ UNCHANGED <<now, srv, cred, authOctokit, octokit, initialized, opts, calls, answers,
                 ready, started>>
  /\ UNCHANGED <<classifyVars, loginVars, approve>>

\* the backoff timer fires and the loop sends the call again
WakeUp(p) ==
  /\ pc[p] = "sleep"
  /\ pc' = [pc EXCEPT ![p] = "call"]
  /\ calls' = [calls EXCEPT ![p] = @ + 1]
  /\ UNCHANGED <<now, srv, cred, authOctokit, clientVars, opts, retries, resp,
                 result, sleeps, answers, ready, started>>
  /\ UNCHANGED <<classifyVars, loginVars, approve>>

\* time passes, up to the time limit
Tick(limit) ==
  /\ now < limit
  /\ now' = now + 1
  /\ UNCHANGED <<srv, cred, authOctokit, clientVars, callVars, ready, started>>
  /\ UNCHANGED <<classifyVars, loginVars, approve>>

\* the caller has taken the result of request(); the call's locals are gone
\* and the caller may call request() again
Return(p) ==
  /\ pc[p] = "done"
  /\ started < MaxRequests
  /\ pc' = [pc EXCEPT ![p] = "idle"]
  /\ opts' = [opts EXCEPT ![p] = NoOptions]
  /\ retries' = [retries EXCEPT ![p] = 0]
  /\ result' = [result EXCEPT ![p] = NoResult]
  /\ calls' = [calls EXCEPT ![p] = 0]
  /\ sleeps' = [sleeps EXCEPT ![p] = << >>]
  /\ answers' = [answers EXCEPT ![p] = << >>]
  /\ UNCHANGED <<now, srv, cred, authOctokit, clientVars, resp, ready, started>>
  /\ UNCHANGED <<classifyVars, loginVars, approve>>

(***************************************************************************)
(* Spec: one caller that calls request() again and again, with every       *)
(* option and every answer of the transport.                               *)
(***************************************************************************)
Caller == CHOOSE p \in Callers : \A q \in Callers : p <= q

Next ==
  \/ Request(Caller, AllOptions)
  \/ InitAuthDone(Caller)
  \/ InitOctokitDone(Caller)
  \/ InitFetchDone(Caller)
  \/ ServerAnswer(Caller, AllResponses)
  \/ Deliver(Caller)
  \/ WakeUp(Caller)
  \/ Return(Caller)
  \/ Tick(MaxNow)

Spec == Init /\ [][Next]_vars

(***************************************************************************)
(* SpecConcurrent: several request() calls in progress at once on the one  *)
(* client, as in listPullRequests' Promise.all over the pull requests.     *)
(***************************************************************************)
\* the concurrent runs are short: the clock stops one second earlier
ConcurrentMaxNow == MaxNow - 1

NextConcurrent ==
  \/ \E p \in Callers : Request(p, ConcurrentOptions)
  \/ \E p \in Callers : InitAuthDone(p)
  \/ \E p \in Callers : InitOctokitDone(p)
  \/ \E p \in Callers : InitFetchDone(p)
  \/ \E p \in Callers : ServerAnswer(p, PlainResponses)
  \/ \E p \in Callers : Deliver(p)
  \/ \E p \in Callers : WakeUp(p)
  \/ Tick(ConcurrentMaxNow)

SpecConcurrent == Init /\ [][NextConcurrent]_vars

(***************************************************************************)
(* Properties of request() with one caller (Spec).                         *)
(***************************************************************************)
\* p's request() call runs its first step: from "idle" to wherever the
\* code up to the first await takes it
Called(p) == pc[p] = "idle" /\ pc'[p] # "idle"

\* p's request() call processes the answer of the transport
Processes(p) == pc[p] = "answered" /\ pc'[p] # "answered"

IsRateLimitResult(r) == r.kind = "err" /\ r.err.cls = "RateLimitError"

\* C1: request() on an initialized client whose tracked state has
\* remaining = 0 and a reset time in the future throws a RateLimitError that
\* carries the tracked reset time, and makes no transport call.
C1_FailFastWhenExhausted ==
  [][\A p \in Callers :
       (/\ Called(p)
        /\ initialized /\ octokit
        /\ rateLimitInfo.remaining = 0
        /\ now < rateLimitInfo.resetTimestamp)
       => /\ pc'[p] = "done"
          /\ IsRateLimitResult(result'[p])
          /\ result'[p].err.reset = rateLimitInfo.resetTimestamp
          /\ calls'[p] = 0]_vars

\* the latest request() call, made on an initialized and exhausted client,
\* has failed fast
C1_Witness ==
  \E p \in Callers :
    /\ ready
    /\ started = 2
    /\ pc[p] = "done"
    /\ rateLimitInfo.remaining = 0
    /\ now < rateLimitInfo.resetTimestamp
    /\ IsRateLimitResult(result[p])
    /\ calls[p] = 0

\* the caller asked for retry with maxRetries = 3 (given, or the configured 3)
RetryThreeTimes(p) == opts[p].retry /\ opts[p].maxRetries \in {3, Undefined}

\* the transport answered k failures with a 5xx status and then a success
FailuresThenSuccess(p, k) ==
  /\ Len(answers[p]) = k + 1
  /\ \A i \in 1..k : answers[p][i] \in 500..599
  /\ answers[p][k + 1] = 200

\* the backoff delays of the claim: 1000ms * 2^i before the i-th retry
ExpectedDelays == <<1000, 2000, 4000>>

\* C2: with retry enabled and maxRetries = 3, k 5xx failures (0 <= k <= 3)
\* followed by a success make request() return the payload after exactly k
\* retries and k+1 transport calls, having slept 1000ms * 2^i before the
\* i-th retry.
C2_RetriesThenSuccess ==
  \A p \in Callers : \A k \in 0..3 :
    (pc[p] = "done" /\ RetryThreeTimes(p) /\ FailuresThenSuccess(p, k))
    => /\ result[p] = Returned
       /\ retries[p] = k
       /\ calls[p] = k + 1
       /\ sleeps[p] = SubSeq(ExpectedDelays, 1, k)

\* the sequence {500, 500, 200}: success after two retries, 1s then 2s
C2_Witness ==
  \E p \in Callers :
    /\ pc[p] = "done"
    /\ RetryThreeTimes(p)
    /\ answers[p] = <<500, 500, 200>>
    /\ result[p] = Returned
    /\ sleeps[p] = <<1000, 2000>>

\* every answer of the transport so far was a 5xx failure
OnlyServerErrors(p) == \A i \in 1..Len(answers[p]) : answers[p][i] \in 500..599

\* the classes of the typed taxonomy
TypedClasses ==
  {"CustomError", "ApiError", "AuthError", "RateLimitError", "ConfigError",
   "RepositoryError", "PermissionError", "ValidationError", "NotFoundError"}

\* C3: with retry enabled and maxRetries = 3, when every transport call is
\* answered with a 5xx failure request() makes exactly 4 transport calls,
\* no fewer and no more, and then throws a typed error.
C3_RetriesExhausted ==
  \A p \in Callers :
    (RetryThreeTimes(p) /\ OnlyServerErrors(p))
    => /\ calls[p] <= 4
       /\ (pc[p] = "done" /\ Len(answers[p]) > 0)
          => /\ calls[p] = 4
             /\ Len(answers[p]) = 4
             /\ retries[p] = 3
             /\ result[p].kind = "err"
             /\ result[p].err.cls \in TypedClasses

\* four 5xx answers in a row, and the call has failed
C3_Witness ==
  \E p \in Callers :
    /\ pc[p] = "done"
    /\ RetryThreeTimes(p)
    /\ answers[p] = <<500, 500, 500, 500>>
    /\ result[p].kind = "err"

\* C4 (as claimed): for every options.maxRetries = m >= 0, m = 0 included,
\* one request() call makes at most m + 1 transport calls.
C4_AtMostMaxRetriesPlusOne ==
  \A p \in Callers :
    opts[p].maxRetries >= 0 => calls[p] <= opts[p].maxRetries + 1

\* C5: a failure that request() classifies as a rate limit (403 with
\* rate-limit text) ends the call at once with a RateLimitError carrying the
\* tracked reset time: no backoff sleep and no further transport call,
\* whatever the options are.
C5_RateLimitNotRetried ==
  [][\A p \in Callers :
       (/\ Processes(p)
        /\ resp[p].status = 403
        /\ resp[p].msg = MsgRateLimit)
       => /\ pc'[p] = "done"
          /\ IsRateLimitResult(result'[p])
          /\ result'[p].err.reset = rateLimitInfo'.resetTimestamp
          /\ sleeps'[p] = sleeps[p]
          /\ calls'[p] = calls[p]]_vars

\* a rate-limit 403 that came after a retried 5xx, with retry enabled
C5_Witness ==
  \E p \in Callers :
    /\ pc[p] = "done"
    /\ opts[p].retry
    /\ answers[p] = <<500, 403>>
    /\ IsRateLimitResult(result[p])
    /\ calls[p] = 2
    /\ sleeps[p] = <<1000>>

\* C6: every request() call ends with the payload or with exactly one error
\* of the typed taxonomy; no raw transport or library error leaves request().
C6_OnlyTypedErrors ==
  \A p \in Callers :
    /\ pc[p] = "done" =>
         \/ result[p] = Returned
         \/ result[p].kind = "err" /\ result[p].err.cls \in TypedClasses
    /\ pc[p] # "done" => result[p] = NoResult

\* a library Error instance thrown by the transport has left request() as
\* a CustomError
C6_Witness ==
  \E p \in Callers :
    /\ pc[p] = "done"
    /\ answers[p] = <<500>>
    /\ ~opts[p].retry
    /\ result[p].kind = "err"
    /\ result[p].err.cls = "CustomError"
    /\ result[p].err.msg = MsgServer

\* C7 (as claimed): when the tracked reset time is not in the future,
\* request() on an initialized client performs the HTTP call, also when the
\* tracked remaining is 0.  Stated for a tracked state that a fetch or a
\* response has filled in (limit > 0), where a quota window was observed
\* and its reset time has passed.
C7_NoShortCircuitAfterReset ==
  [][\A p \in Callers :
       (/\ Called(p)
        /\ initialized /\ octokit
        /\ rateLimitInfo.limit > 0
        /\ now >= rateLimitInfo.resetTimestamp)
       => /\ pc'[p] = "call"
          /\ calls'[p] = 1]_vars

\* C8 (as claimed): processing a response whose rate-limit headers are not
\* all present and well-formed leaves the tracked state as it was.
C8_MalformedHeadersIgnored ==
  [][\A p \in Callers :
       (Processes(p) /\ ~WellFormed(resp[p].headers))
       => rateLimitInfo' = rateLimitInfo]_vars

(***************************************************************************)
(* Properties of the tracker under concurrent callers (SpecConcurrent).    *)
(***************************************************************************)
\* C9 (as claimed): a response that is processed never raises the tracked
\* remaining while the tracked reset timestamp stays the same.
C9_RemainingNeverIncreasesInWindow ==
  [][\A p \in Callers :
       (/\ Processes(p)
        /\ rateLimitInfo'.resetTimestamp = rateLimitInfo.resetTimestamp)
       => rateLimitInfo'.remaining <= rateLimitInfo.remaining]_vars

\* the tracked state that is the complete header set h, field by field
HeaderSetAsState(h) ==
  [limit |-> h.limit.v, remaining |-> h.remaining.v,
   resetTimestamp |-> h.reset.v, isLimited |-> h.remaining.v <= 0]

\* the tracked state that is the answer to GET /rate_limit at this moment
FetchAsState ==
  [limit |-> SrvLimit, remaining |-> srvAt(now).remaining,
   resetTimestamp |-> srvAt(now).reset, isLimited |-> srvAt(now).remaining <= 0]

\* C10: with concurrent request() calls every change of the tracked state
\* sets all four fields from one response, the one being processed in that
\* step; the state is never a mixture of two responses.
C10_UpdatesAreAtomic ==
  [][rateLimitInfo' # rateLimitInfo =>
       \E p \in Callers :
         \/ /\ Processes(p)
            /\ WellFormed(resp[p].headers)
            /\ rateLimitInfo' = HeaderSetAsState(resp[p].headers)
         \/ /\ pc[p] = "init_fetch" /\ pc'[p] # "init_fetch"
            /\ rateLimitInfo' = FetchAsState]_vars

\* two calls have both returned, and the answer applied last was not the
\* one the remote service gave last
C10_Witness ==
  /\ \A p \in Callers : pc[p] = "done" /\ result[p] = Returned
  /\ rateLimitInfo.resetTimestamp = srv.reset
  /\ rateLimitInfo.remaining > srv.remaining
  /\ rateLimitInfo.limit = SrvLimit

(***************************************************************************)
(* SpecClassify: the error classifier as a function.  A value is thrown,   *)
(* wrapError or the catch block of request() classifies it, and the layers *)
(* above (service, command) hand the result to wrapError again.            *)
(***************************************************************************)
\* number of layers that classify one failure in turn
MaxLayers == 3

\* error.status of a raw failure; NoStatus when it has none
RawStatuses == {NoStatus, 401, 403, 404, 429, 500}

\* error.message of a raw failure
RawMessages == {MsgNone, MsgRateLimit, MsgNotFound, MsgServer}

\* error.headers of a raw failure: none, or the rate-limit headers
FailureHeaders == {NoHeaders, MkHeaders("good", SrvLimit, 0, MaxNow)}

\* the raw failures: plain objects and library Error instances
RawFailures ==
  { [e |-> RawError(c, st, m), headers |-> h] :
      c \in {"Object", "Error"}, st \in RawStatuses, m \in RawMessages,
      h \in FailureHeaders }

\* one error of every class of the taxonomy
TypedErrors ==
  { CustomError(MsgServer, "UNKNOWN_ERROR", NoStatus),
    ApiError(MsgServer, 500),
    AuthError("Invalid token"),
    RateLimitError(MsgRateLimit, MaxNow),
    ConfigError("Failed to save"),
    RepositoryError("Not a git repository"),
    PermissionError("Forbidden"),
    ValidationError("Invalid input"),
    NotFoundError(MsgNotFound) }

\* the typed errors, constructed without and with a context argument
TypedFailures ==
  { [e |-> WithContext(x, c), headers |-> NoHeaders] :
      x \in TypedErrors, c \in {"none", "given"} }

\* a failure is raw when it is no instance of the taxonomy
IsRaw(e) == e.cls \in {"Object", "Error"}

InitClassify ==
  /\ InitClient
  /\ srv.remaining = SrvLimit
  /\ cred # NoPassword
  /\ InitAuth
  /\ failure \in RawFailures \cup TypedFailures
  /\ classified = << >>
  /\ viaRequest = FALSE

\* wrapError(failure) is called directly
ClassifyDirect ==
  /\ classified = << >>
  /\ classified' = <<wrapError(failure.e, failure.headers, now)>>
  /\ viaRequest' = FALSE
  /\ UNCHANGED <<now, srv, cred, authOctokit, clientVars, callVars, ready, started, failure>>
  /\ UNCHANGED <<loginVars, approve>>

\* the transport throws the failure inside request() and request() does not
\* retry: the catch blocks of request()
RequestCatch ==
  /\ classified = << >>
  /\ IsRaw(failure.e)
  /\ LET r == [status |-> failure.e.status, headers |-> failure.headers]
         info == trackedAfter(rateLimitInfo, r)
     IN /\ rateLimitInfo' = info
        /\ classified' = <<requestThrows(failure.e, failure.headers, info, now)>>
  /\ viaRequest' = TRUE
  /\ UNCHANGED <<now, srv, cred, authOctokit, octokit, initialized, callVars, ready,
                 started, failure>>
  /\ UNCHANGED <<loginVars, approve>>

\* a layer above catches the classified error and calls wrapError on it
Reclassify ==
  /\ Len(classified) \in 1..(MaxLayers - 1)
  /\ classified' = Append(classified, wrapError(classified[Len(classified)], NoHeaders, now))
  /\ UNCHANGED <<now, srv, cred, authOctokit, clientVars, callVars, ready, started,
                 failure, viaRequest>>
  /\ UNCHANGED <<loginVars, approve>>

NextClassify ==
  \/ ClassifyDirect
  \/ RequestCatch
  \/ Reclassify
  \/ Tick(MaxNow)

SpecClassify == InitClassify /\ [][NextClassify]_vars

\* C11 (as claimed): a raw failure, plain object or Error instance, with
\* status 401 or 403 and rate-limit text in its message is classified as a
\* RateLimitError, never as an AuthError.
C11_RateLimitBeforeAuth ==
  (/\ classified # << >>
   /\ IsRaw(failure.e)
   /\ failure.e.status \in {401, 403}
   /\ RateLimitText(failure.e.msg))
  => classified[1].cls = "RateLimitError"

\* C12 (as claimed): a raw failure with status 404, plain object or Error
\* instance, is classified as a NotFoundError, by wrapError called directly
\* and by request().
C12_NotFoundFor404 ==
  (/\ classified # << >>
   /\ IsRaw(failure.e)
   /\ failure.e.status = 404)
  => classified[1].cls = "NotFoundError"

\* C13: wrapError hands an error of the taxonomy back as it is (class,
\* message, status, context and all), so classifying a classified error
\* again, in however many layers and at whatever time, changes nothing.
C13_ClassifyIdempotent ==
  /\ (classified # << >> /\ ~viaRequest /\ ~IsRaw(failure.e))
       => classified[1] = failure.e
  /\ \A i \in 1..Len(classified) :
       /\ classified[i].cls \in TypedClasses
       /\ classified[i] = classified[1]

\* a PermissionError built with a context went through every layer, the
\* last one at a later time, and came out as it went in
C13_Witness ==
  /\ Len(classified) = MaxLayers
  /\ failure.e.cls = "PermissionError"
  /\ failure.e.context = "given"
  /\ now > 0
  /\ classified[MaxLayers] = failure.e

(***************************************************************************)
(* The login operations of AuthService: loginWithToken and the device      *)
(* flow of loginWithBrowser.  Every action is the code between two awaits; *)
(* the answers of the device-code endpoint, the token endpoint, the        *)
(* identity endpoint and the secret store are steps of their own.          *)
(***************************************************************************)
\* const maxRetries = 30 of pollForToken
MaxPollRetries == 30
\* let interval = 5000, in milliseconds
InitialIntervalMs == 5000
\* the cap of Math.min(interval * 1.5, 30000), in milliseconds
MaxIntervalMs == 30000

\* interval is kept in microseconds: 5000 * 1.5^k is a whole number of
\* microseconds for every k the cap lets through
Us(ms) == ms * 1000

MsgInvalidToken == "Invalid token"
MsgTimedOut == "Authentication timed out or was rejected"
MsgDeviceCode == "Failed to create device code flow"
MsgNetwork == "fetch failed"

\* what the token endpoint can answer.  With response.ok: an access_token,
\* or data.error "authorization_pending", "slow_down", a text with "too many
\* requests" in it, "access_denied", "expired_token", another error code
\* ("other_error"), or neither field ("empty"); "http_error" is a response
\* that is not ok, "network_error" an exception thrown by fetch or
\* response.json()
PollOutcomes ==
  {"access_token", "authorization_pending", "slow_down", "too_many_requests",
   "access_denied", "expired_token", "other_error", "empty", "http_error",
   "network_error"}

\* response.ok && data.access_token
hasToken(r) == r = "access_token"

\* the loop condition that goes on although a token was received
pollAgainIgnoresToken(tok, n) == n < MaxPollRetries

\* the loop condition with retries <= maxRetries
pollAgainInclusive(tok, n) == ~tok /\ n <= MaxPollRetries

\* while (!token && retries < maxRetries)
pollAgain(tok, n) == ~tok /\ n < MaxPollRetries

\* the slow-down step without the cap
slowDownUncapped(i) == (i * 3) \div 2

\* Math.min(interval * 1.5, 30000)
slowDown(i) ==
  IF (i * 3) \div 2 < Us(MaxIntervalMs) THEN (i * 3) \div 2 ELSE Us(MaxIntervalMs)

\* the loop body that leaves interval alone when fetch throws
nextIntervalIgnoresExceptions(i, r) ==
  IF r \in {"slow_down", "too_many_requests", "http_error"} THEN slowDown(i) ELSE i

\* the loop body that slows down on every answer without a token
nextIntervalSlowsOnAnyError(i, r) ==
  IF r = "access_token" THEN i ELSE slowDown(i)

\* interval after one pass through the loop body that got the answer r
nextInterval(i, r) ==
  IF r \in {"slow_down", "too_many_requests"} THEN slowDown(i)
  ELSE IF r = "http_error" THEN slowDown(i)
  ELSE IF r = "network_error" THEN slowDown(i)
  ELSE i

\* the validation that takes every answer of the identity endpoint for a user
identityOkAlways(r) == TRUE

\* await this.octokit.rest.users.getAuthenticated() resolved
identityOk(r) == r = "user"

\* the Error the catch block of loginWithBrowser or loginWithToken throws
loginFailure(m, msg) ==
  RawError("Error", NoStatus,
           (IF m = "browser" THEN "Browser authentication failed: "
                             ELSE "Token authentication failed: ") \o msg)

\* the answers to the device-code request: an OK response, a response that
\* is not OK, and a fetch that rejects
DeviceCodeOutcomes ==
  {"device_code_ok", "device_code_http_error", "device_code_network_error"}

deviceCodeOkAnyResponse(r) == r # "device_code_network_error"

\* createDeviceCodeFlow returns the flow: fetch resolved and response.ok
deviceCodeOk(r) == r = "device_code_ok"

\* the message of what createDeviceCodeFlow throws
deviceCodeMessage(r) ==
  IF r = "device_code_http_error" THEN MsgDeviceCode ELSE MsgNetwork

\* how open(url) settles
OpenOutcomes == {"opened", "open_failed"}

\* the login operation ends with the result r
LoginEnds(r) ==
  /\ loginPc' = "done"
  /\ loginResult' = r

\* validateAndSaveToken(token, method) up to its first await: initOctokit
\* and the call of the identity endpoint
StartValidation ==
  /\ authOctokit' = TRUE
  /\ loginPc' = "validate"
  /\ loginResult' = loginResult

\* what no login operation touches
apiVars == <<now, srv, clientVars, callVars, ready, started, classifyVars, approve>>

\* loginWithBrowser() is called: createDeviceCodeFlow sends its request
loginWithBrowser ==
  /\ loginPc = "idle"
  /\ loginPc' = "device_code"
  /\ method' = "browser"
  /\ history' = Append(history, "loginWithBrowser")
  /\ deviceRequests' = deviceRequests + 1
  /\ UNCHANGED <<apiVars, cred, authOctokit, pollRetries, interval, loginResp,
                 loginResult, polls, saveCalls, pendingOnly, pollThrew, opens,
                 token, saved, loaded>>

\* a caller other than the auth login command calls loginWithBrowser()
LoginWithBrowser == loginWithBrowser /\ UNCHANGED cmd

\* the device-code endpoint answers and createDeviceCodeFlow returns or
\* throws; on success the one-time code is shown
DeviceCodeDone ==
  /\ loginPc = "device_code"
  /\ \E r \in DeviceCodeOutcomes :
       /\ loginResp' = r
       /\ IF deviceCodeOk(r)
            THEN loginPc' = "await_enter" /\ loginResult' = loginResult
            ELSE LoginEnds(Threw(loginFailure(method, deviceCodeMessage(r))))
  /\ UNCHANGED <<apiVars, cred, authOctokit, method, pollRetries, interval,
                 deviceRequests, polls, saveCalls, pendingOnly, pollThrew, opens, sessionVars>>

\* the user presses Enter and open(url) is called
EnterPressed ==
  /\ loginPc = "await_enter"
  /\ loginPc' = "open"
  /\ opens' = opens + 1
  /\ UNCHANGED <<apiVars, cred, authOctokit, method, pollRetries, interval, loginResp,
                 loginResult, deviceRequests, polls, saveCalls, pendingOnly, pollThrew,
                 sessionVars>>

\* open(url) settles; on success pollForToken starts: retries = 0,
\* interval = 5000, the loop is entered, retries++ and the timer is set;
\* a rejection of open(url) is caught by the catch of loginWithBrowser
OpenDone ==
  /\ loginPc = "open"
  /\ \E r \in OpenOutcomes :
       /\ loginResp' = r
       /\ IF r = "opened"
            THEN /\ interval' = Us(InitialIntervalMs)
                 /\ IF pollAgain(FALSE, 0)
                      THEN /\ pollRetries' = 1
                           /\ loginPc' = "poll_sleep"
                           /\ loginResult' = loginResult
                      ELSE /\ pollRetries' = 0
                           /\ LoginEnds(Threw(loginFailure(method, MsgTimedOut)))
            ELSE /\ LoginEnds(Threw(loginFailure(method, MsgNetwork)))
                 /\ UNCHANGED <<pollRetries, interval>>
  /\ UNCHANGED <<apiVars, cred, authOctokit, method, deviceRequests, polls,
                 saveCalls, pendingOnly, pollThrew, opens, sessionVars>>

\* the timer of the loop fires and the token endpoint is asked
PollTimerFires ==
  /\ loginPc = "poll_sleep"
  /\ loginPc' = "poll_fetch"
  /\ polls' = polls + 1
  /\ UNCHANGED <<apiVars, cred, authOctokit, method, pollRetries, interval, loginResp,
                 loginResult, deviceRequests, saveCalls, pendingOnly, pollThrew, opens, sessionVars>>

\* the token endpoint answers
TokenEndpointAnswer(outcomes) ==
  /\ loginPc = "poll_fetch"
  /\ \E r \in outcomes :
       /\ loginResp' = r
       /\ pendingOnly' = (pendingOnly /\ r \in {"authorization_pending", "access_token"})
       /\ pollThrew' = (pollThrew \/ r = "network_error")
       /\ IF hasToken(r) THEN token' \in Tokens ELSE token' = token
  /\ loginPc' = "poll_answered"
  /\ UNCHANGED <<apiVars, cred, authOctokit, method, pollRetries, interval, loginResult,
                 deviceRequests, polls, saveCalls, opens, saved, loaded, history, cmd>>

\* the rest of the loop body, the loop condition and what follows the loop:
\* the next pass, the timeout, or validateAndSaveToken with the token
PollDone ==
  /\ loginPc = "poll_answered"
  /\ interval' = nextInterval(interval, loginResp)
  /\ IF pollAgain(hasToken(loginResp), pollRetries) THEN
       /\ pollRetries' = pollRetries + 1
       /\ loginPc' = "poll_sleep"
       /\ UNCHANGED <<loginResult, authOctokit>>
     ELSE IF hasToken(loginResp) THEN
       /\ StartValidation
       /\ UNCHANGED pollRetries
     ELSE
       /\ LoginEnds(Threw(loginFailure(method, MsgTimedOut)))
       /\ UNCHANGED <<pollRetries, authOctokit>>
  /\ UNCHANGED <<apiVars, cred, method, loginResp, deviceRequests, polls, saveCalls,
                 pendingOnly, pollThrew, opens, sessionVars>>

\* loginWithToken(token) is called
loginWithToken(t) ==
  /\ loginPc = "idle"
  /\ method' = "token"
  /\ token' = t
  /\ history' = Append(history, "loginWithToken")
  /\ StartValidation
  /\ UNCHANGED <<apiVars, cred, pollRetries, interval, loginResp, deviceRequests,
                 polls, saveCalls, pendingOnly, pollThrew, opens, saved, loaded>>

\* a caller other than the auth login command calls loginWithToken(token)
LoginWithToken == (\E t \in Tokens : loginWithToken(t)) /\ UNCHANGED cmd

\* the answers of the identity endpoint: the user of the token, a 401 for
\* a token that is wrong or revoked, and a request that fails on the way
IdentityOutcomes == {"user", "unauthorized", "unreachable"}

\* the identity endpoint answers: the user, or a failure
IdentityAnswer ==
  /\ loginPc = "validate"
  /\ loginResp' \in IdentityOutcomes
  /\ loginPc' = "validate_answered"
  /\ UNCHANGED <<apiVars, cred, authOctokit, method, pollRetries, interval, loginResult,
                 deviceRequests, polls, saveCalls, pendingOnly, pollThrew, opens, sessionVars>>

\* validateAndSaveToken after getAuthenticated(): saveCredentials calls
\* keytar.setPassword, or the catch block drops octokit and throws
ValidateDone ==
  /\ loginPc = "validate_answered"
  /\ IF identityOk(loginResp)
       THEN /\ saveCalls' = saveCalls + 1
            /\ saved' = [token |-> token, username |-> loginOf(token), method |-> method]
            /\ loginPc' = "save"
            /\ UNCHANGED <<loginResult, authOctokit>>
       ELSE /\ authOctokit' = FALSE
            /\ LoginEnds(Threw(loginFailure(method, MsgInvalidToken)))
            /\ UNCHANGED <<saveCalls, saved>>
  /\ UNCHANGED <<apiVars, cred, method, pollRetries, interval, loginResp, deviceRequests,
                 polls, pendingOnly, pollThrew, opens, token, loaded, history, cmd>>

\* the secret store answers keytar.setPassword: written, or an error
KeychainAnswer ==
  /\ loginPc = "save"
  /\ \E r \in {"written", "write_failed"} :
       /\ loginResp' = r
       /\ cred' = setPassword(cred, saved, r = "written")
  /\ loginPc' = "save_answered"
  /\ UNCHANGED <<apiVars, authOctokit, method, pollRetries, interval, loginResult,
                 deviceRequests, polls, saveCalls, pendingOnly, pollThrew, opens, sessionVars>>

\* a validateAndSaveToken that throws after saveCredentials has returned
SaveDoneThrowsAfterWrite ==
  /\ loginPc = "save_answered"
  /\ authOctokit' = FALSE
  /\ LoginEnds(Threw(loginFailure(method, MsgInvalidToken)))
  /\ UNCHANGED <<apiVars, cred, method, pollRetries, interval, loginResp, deviceRequests,
                 polls, saveCalls, pendingOnly, pollThrew, opens, sessionVars>>

\* validateAndSaveToken after saveCredentials: the user is returned, or the
\* Error of saveCredentials lands in the catch block of validateAndSaveToken
SaveDone ==
  /\ loginPc = "save_answered"
  /\ IF loginResp = "written"
       THEN /\ LoginEnds(Returned)
            /\ UNCHANGED authOctokit
       ELSE /\ authOctokit' = FALSE
            /\ LoginEnds(Threw(loginFailure(method, MsgInvalidToken)))
  /\ UNCHANGED <<apiVars, cred, method, pollRetries, interval, loginResp, deviceRequests,
                 polls, saveCalls, pendingOnly, pollThrew, opens, sessionVars>>

NextLogin ==
  \/ LoginWithBrowser
  \/ DeviceCodeDone
  \/ EnterPressed
  \/ OpenDone
  \/ PollTimerFires
  \/ TokenEndpointAnswer(PollOutcomes)
  \/ PollDone
  \/ LoginWithToken
  \/ IdentityAnswer
  \/ ValidateDone
  \/ KeychainAnswer
  \/ SaveDone

\* the login operations on their own: the request client is not in use
InitLogin ==
  /\ Init
  /\ srv.remaining = SrvLimit

SpecLogin == InitLogin /\ [][NextLogin]_vars

\* the scheduling of the polling loop: a timer that was set fires, a
\* request that was sent is answered or fails, and code that can run runs
SpecLoginFair ==
  /\ SpecLogin
  /\ WF_vars(PollTimerFires)
  /\ WF_vars(TokenEndpointAnswer(PollOutcomes))
  /\ WF_vars(PollDone)

(***************************************************************************)
(* The other operations of AuthService, isAuthenticated, getAuthStatus and *)
(* logout, and a caller that calls one operation after another.            *)
(***************************************************************************)
\* the number of operations a caller calls
MaxOps == 2

\* the operation called last
op == IF history = << >> THEN "none" ELSE history[Len(history)]

\* an operation returns the value v
ReturnedValue(v) == [kind |-> "ok", err |-> NoError, value |-> v]

\* getAuthStatus() up to its first await: getCredentials asks the secret
\* store for the entry
statusCall(name) ==
  /\ loginPc = "idle"
  /\ loginPc' = "status_read"
  /\ history' = Append(history, name)
  /\ UNCHANGED <<apiVars, cred, authOctokit, method, pollRetries, interval, loginResp,
                 loginResult, deviceRequests, polls, saveCalls, pendingOnly, pollThrew,
                 opens, token, saved, loaded>>

\* a caller calls isAuthenticated(), which calls getAuthStatus()
IsAuthenticated == statusCall("isAuthenticated") /\ UNCHANGED cmd

\* a caller other than the auth login command calls getAuthStatus()
GetAuthStatus == statusCall("getAuthStatus") /\ UNCHANGED cmd

\* what the operation in progress makes of the status getAuthStatus returns
statusResult(status) ==
  IF op = "isAuthenticated" THEN ReturnedValue(isAuthenticated(status))
                            ELSE ReturnedValue(status)

\* the secret store answers getPassword and getCredentials returns; with
\* credentials getAuthStatus sets octokit and asks the identity endpoint
PasswordAnswer ==
  /\ loginPc = "status_read"
  /\ \E readOk \in BOOLEAN :
       LET credentials == getCredentials(cred, readOk)
       IN /\ loginResp' = (IF readOk THEN "read" ELSE "read_failed")
          /\ loaded' = credentials
          /\ IF credentials = NoCredentials
               THEN /\ LoginEnds(statusResult(getAuthStatus(credentials, FALSE)))
                    /\ UNCHANGED authOctokit
               ELSE /\ authOctokit' = TRUE
                    /\ loginPc' = "status_identity"
                    /\ loginResult' = loginResult
  /\ UNCHANGED <<apiVars, cred, method, pollRetries, interval, deviceRequests, polls,
                 saveCalls, pendingOnly, pollThrew, opens, token, saved, history, cmd>>

\* the identity endpoint answers and getAuthStatus returns the user, or
\* null from its catch block
StatusIdentityAnswer ==
  /\ loginPc = "status_identity"
  /\ \E r \in IdentityOutcomes :
       /\ loginResp' = r
       /\ LoginEnds(statusResult(getAuthStatus(loaded, identityOk(r))))
  /\ UNCHANGED <<apiVars, cred, authOctokit, method, pollRetries, interval,
                 deviceRequests, polls, saveCalls, pendingOnly, pollThrew, opens,
                 sessionVars>>

\* logout() up to its await: keytar.deletePassword is called
logout ==
  /\ loginPc = "idle"
  /\ loginPc' = "logout_delete"
  /\ history' = Append(history, "logout")
  /\ UNCHANGED <<apiVars, cred, authOctokit, method, pollRetries, interval, loginResp,
                 loginResult, deviceRequests, polls, saveCalls, pendingOnly, pollThrew,
                 opens, token, saved, loaded>>

\* a caller other than the auth login command calls logout()
Logout == logout /\ UNCHANGED cmd

logoutReturnsDeleted(password, ok) == ok /\ password # NoPassword

\* what logout() returns: true unless deletePassword throws; whether there
\* was an entry to delete is not looked at
logoutReturns(password, ok) == ok

\* the secret store answers deletePassword; logout drops octokit and
\* returns true, or returns false from its catch block
DeleteAnswer ==
  /\ loginPc = "logout_delete"
  /\ \E ok \in BOOLEAN :
       /\ loginResp' = (IF ok THEN "deleted" ELSE "delete_failed")
       /\ cred' = deletePassword(cred, ok)
       /\ authOctokit' = (authOctokit /\ ~ok)
       /\ LoginEnds(ReturnedValue(logoutReturns(cred, ok)))
  /\ UNCHANGED <<apiVars, method, pollRetries, interval, deviceRequests, polls,
                 saveCalls, pendingOnly, pollThrew, opens, sessionVars>>

\* the caller has the result of an operation and AuthService is idle again
NextOperation ==
  /\ loginPc = "done"
  /\ Len(history) < MaxOps
  /\ loginPc' = "idle"
  /\ UNCHANGED <<apiVars, cred, authOctokit, method, pollRetries, interval, loginResp,
                 loginResult, deviceRequests, polls, saveCalls, pendingOnly, pollThrew,
                 opens, sessionVars>>

\* in a session the user has authorised the device before the first poll:
\* the polling loop itself is run under SpecLogin
SessionPollOutcomes == {"access_token"}

\* what the store may hold when a session starts: nothing, a text that is
\* not JSON, or the credential of an earlier login
SessionStores == {NoPassword, JunkPassword, stringify(SavedLogin)}

NextSession ==
  \/ LoginWithBrowser
  \/ DeviceCodeDone
  \/ EnterPressed
  \/ OpenDone
  \/ PollTimerFires
  \/ TokenEndpointAnswer(SessionPollOutcomes)
  \/ PollDone
  \/ LoginWithToken
  \/ IdentityAnswer
  \/ ValidateDone
  \/ KeychainAnswer
  \/ SaveDone
  \/ IsAuthenticated
  \/ GetAuthStatus
  \/ PasswordAnswer
  \/ StatusIdentityAnswer
  \/ Logout
  \/ DeleteAnswer
  \/ NextOperation

InitSession ==
  /\ InitClientWith(SessionStores)
  /\ srv.remaining = SrvLimit
  /\ InitAuth
  /\ failure = NoFailure
  /\ classified = << >>
  /\ viaRequest = FALSE

\* one caller after another uses AuthService
SpecSession == InitSession /\ [][NextSession]_vars

(***************************************************************************)
(* saveCredentials and getCredentials on their own, for every credentials  *)
(* object, the ones without a username included.                           *)
(***************************************************************************)
\* saveCredentials(c): setPassword with the JSON text of c; a rejection is
\* thrown on as an Error
SaveCredentials ==
  /\ loginPc = "idle"
  /\ \E c \in AuthCredentials, ok \in BOOLEAN :
       /\ saved' = c
       /\ saveCalls' = saveCalls + 1
       /\ cred' = setPassword(cred, c, ok)
       /\ loginResp' = (IF ok THEN "written" ELSE "write_failed")
       /\ loginResult' =
            (IF ok THEN Returned
                   ELSE Threw(RawError("Error", NoStatus,
                                       "Failed to save credentials: " \o MsgNetwork)))
  /\ saveCalls < MaxOps
  /\ UNCHANGED <<apiVars, authOctokit, loginPc, method, pollRetries, interval,
                 deviceRequests, polls, pendingOnly, pollThrew, opens, token, loaded,
                 history, cmd>>

\* getCredentials(): getPassword and JSON.parse
LoadCredentials ==
  /\ loginPc = "idle"
  /\ \E readOk \in BOOLEAN :
       /\ loaded' = getCredentials(cred, readOk)
       /\ loginResp' = (IF readOk THEN "read" ELSE "read_failed")
  /\ UNCHANGED <<apiVars, cred, authOctokit, loginPc, method, pollRetries, interval,
                 loginResult, deviceRequests, polls, saveCalls, pendingOnly, pollThrew,
                 opens, token, saved, history, cmd>>

NextStore ==
  \/ SaveCredentials
  \/ LoadCredentials

SpecStore == InitSession /\ [][NextStore]_vars

(***************************************************************************)
(* The auth login command: one action per await of its handler.  The       *)
(* operations of AuthService it calls run as modelled above.               *)
(***************************************************************************)
\* what a step of the command itself leaves alone, loginPc apart
commandFrame ==
  <<apiVars, cred, authOctokit, method, pollRetries, interval, loginResp, loginResult,
    deviceRequests, polls, saveCalls, pendingOnly, pollThrew, opens, token, saved,
    loaded, history>>

\* the command starts and calls getAuthStatus()
LoginCommand ==
  /\ cmd = "none"
  /\ cmd' = "status"
  /\ statusCall("getAuthStatus")

\* getAuthStatus() has returned: with a status the command asks whether to
\* log in again, without one it asks for the method
CommandStatusDone ==
  /\ cmd = "status"
  /\ loginPc = "done"
  /\ cmd' = (IF loginResult.value # NoUser THEN "confirm" ELSE "method")
  /\ loginPc' = "idle"
  /\ UNCHANGED commandFrame

\* the user answers the confirm prompt, or the prompt is closed and rejects
ConfirmAnswer ==
  /\ cmd = "confirm"
  /\ cmd' \in {"answered_yes", "answered_no", "prompt_failed"}
  /\ UNCHANGED <<commandFrame, loginPc>>

loginAgainAlways(answer) == TRUE

\* the command goes on past "if (!confirm) return"
loginAgain(answer) == answer = "answered_yes"

\* after the prompt: exit(1) from the catch block, the return of a user
\* who declined, or logout()
CommandConfirmDone ==
  /\ cmd \in {"answered_yes", "answered_no", "prompt_failed"}
  /\ IF cmd = "prompt_failed" THEN
       /\ cmd' = "exit_1"
       /\ UNCHANGED <<commandFrame, loginPc>>
     ELSE IF loginAgain(cmd) THEN
       /\ cmd' = "logout"
       /\ logout
     ELSE
       /\ cmd' = "declined"
       /\ UNCHANGED <<commandFrame, loginPc>>

\* logout() has returned; its result is not looked at and the command asks
\* for the method
CommandLogoutDone ==
  /\ cmd = "logout"
  /\ loginPc = "done"
  /\ cmd' = "method"
  /\ loginPc' = "idle"
  /\ UNCHANGED commandFrame

\* the user picks the method and, for a token, pastes one; the command
\* calls loginWithBrowser() or loginWithToken(token)
MethodAnswer ==
  /\ cmd = "method"
  /\ cmd' = "login"
  /\ \E m \in AuthMethods :
       IF m = "browser" THEN loginWithBrowser
                        ELSE \E t \in Tokens : loginWithToken(t)

\* the login has returned or thrown: the command prints the user, or the
\* message and exits with 1
CommandLoginDone ==
  /\ cmd = "login"
  /\ loginPc = "done"
  /\ cmd' = (IF loginResult = Returned THEN "logged_in" ELSE "exit_1")
  /\ loginPc' = "idle"
  /\ UNCHANGED commandFrame

NextCommand ==
  \/ LoginCommand
  \/ PasswordAnswer
  \/ StatusIdentityAnswer
  \/ CommandStatusDone
  \/ ConfirmAnswer
  \/ CommandConfirmDone
  \/ DeleteAnswer
  \/ CommandLogoutDone
  \/ MethodAnswer
  \/ DeviceCodeDone
  \/ EnterPressed
  \/ OpenDone
  \/ PollTimerFires
  \/ TokenEndpointAnswer(SessionPollOutcomes)
  \/ PollDone
  \/ IdentityAnswer
  \/ ValidateDone
  \/ KeychainAnswer
  \/ SaveDone
  \/ CommandLoginDone

\* the auth login command is run once
SpecCommand == InitSession /\ [][NextCommand]_vars

(***************************************************************************)
(* The approve command, approvePullRequest(prNumber, options): one action  *)
(* per await.  getPullRequest and the approval request are taken by their  *)
(* outcomes.                                                               *)
(***************************************************************************)
\* what the approve command leaves alone
approveFrame ==
  <<now, srv, cred, authOctokit, clientVars, callVars, ready, started, classifyVars,
    loginVars>>

\* the pull request numbers given: two that are valid, and the values the
\* validation rejects (not a number, and not positive)
PrNumbers == {0, 1, 2, NaN}

\* options.comment: left out, or given
Comments == {"", "nice work"}

DefaultComment == "LGTM"

\* pr.ciStatus as getPullRequest returns it
CiStatuses == {"success", "failure", "pending", "unknown", "null"}

\* what getPullRequest and the approval request may throw
ApproveFailures == {"NotFoundError", "PermissionError", "Error"}

needsConfirmationForced(force, ciStatus) == ciStatus \in {"failure", "pending"}

\* the command asks before it approves: force is not set and ciStatus is
\* failure or pending
needsConfirmation(force, ciStatus) ==
  /\ ~force
  /\ ciStatus # "null"
  /\ ciStatus \in {"failure", "pending"}

\* the approval request is sent with the comment of the options or the
\* default one
sendApproval(a) ==
  [a EXCEPT !.pc = "approve", !.approvals = @ + 1,
            !.sent = (IF a.comment # "" THEN a.comment ELSE DefaultComment)]

\* the command is called; a number that is not valid is thrown on, the
\* repository of the working directory is asked for otherwise
ApproveCommand ==
  /\ approve.pc = "idle"
  /\ \E n \in PrNumbers, f \in BOOLEAN, c \in Comments :
       approve' =
         IF n = NaN \/ n <= 0
           THEN [approve EXCEPT !.pc = "done", !.result = "threw"]
           ELSE [approve EXCEPT !.pc = "repository", !.pullNumber = n,
                                !.force = f, !.comment = c]
  /\ UNCHANGED approveFrame

\* getGitHubRepository settles: outside a GitHub repository the command
\* throws, inside one it calls getPullRequest
RepositoryAnswer ==
  /\ approve.pc = "repository"
  /\ \E found \in BOOLEAN :
       approve' =
         IF found THEN [approve EXCEPT !.pc = "get_pr"]
                  ELSE [approve EXCEPT !.pc = "done", !.result = "threw"]
  /\ UNCHANGED approveFrame

\* getPullRequest settles: a failure is reported and the command returns
\* false; with the pull request the command prompts or sends the approval
PullRequestAnswer ==
  /\ approve.pc = "get_pr"
  /\ \/ \E e \in ApproveFailures :
          approve' = [approve EXCEPT !.pc = "done", !.result = "false"]
     \/ \E ci \in CiStatuses :
          LET a == [approve EXCEPT !.ciStatus = ci]
          IN approve' =
               IF needsConfirmation(a.force, ci)
                 THEN [a EXCEPT !.pc = "confirm", !.prompts = @ + 1]
                 ELSE sendApproval(a)
  /\ UNCHANGED approveFrame

\* the prompt settles: yes sends the approval, no returns false, and a
\* prompt that rejects is reported and returns false
PromptAnswer ==
  /\ approve.pc = "confirm"
  /\ \E answer \in {"yes", "no", "prompt_failed"} :
       LET a == [approve EXCEPT !.shouldApprove = answer]
       IN approve' =
            IF answer = "yes" THEN sendApproval(a)
                              ELSE [a EXCEPT !.pc = "done", !.result = "false"]
  /\ UNCHANGED approveFrame

\* the approval request settles: true, or false from the catch block
ApprovalAnswer ==
  /\ approve.pc = "approve"
  /\ \/ approve' = [approve EXCEPT !.pc = "done", !.result = "true"]
     \/ \E e \in ApproveFailures :
          approve' = [approve EXCEPT !.pc = "done", !.result = "false"]
  /\ UNCHANGED approveFrame

NextApprove ==
  \/ ApproveCommand
  \/ RepositoryAnswer
  \/ PullRequestAnswer
  \/ PromptAnswer
  \/ ApprovalAnswer

\* the approve command is run once, by a user who is logged in
InitApprove ==
  /\ InitSession
  /\ cred = stringify(SavedLogin)

SpecApprove == InitApprove /\ [][NextApprove]_vars

(***************************************************************************)
(* Properties of the device flow (SpecLogin, SpecLoginFair).               *)
(***************************************************************************)
\* pollForToken is running
Polling == loginPc \in {"poll_sleep", "poll_fetch", "poll_answered"}

\* the login operation failed with the message msg
LoginFailedWith(msg) ==
  /\ loginPc = "done"
  /\ loginResult = Threw(RawError("Error", NoStatus, msg))

\* the timeout error of pollForToken as loginWithBrowser throws it
TimedOut ==
  Threw(RawError("Error", NoStatus,
                 "Browser authentication failed: Authentication timed out or was rejected"))

\* C14: whatever the token endpoint answers, the polling loop ends; it asks
\* the token endpoint at most 30 times, and when it ends without an
\* access_token that is after the 30th poll, with the timeout error, and
\* the secret store was never written.
C14_PollingTerminates ==
  /\ [](polls <= 30)
  /\ [][(loginPc = "poll_answered" /\ loginResp # "access_token" /\ loginPc' # "poll_sleep")
          => /\ polls = 30
             /\ loginPc' = "done"
             /\ loginResult' = TimedOut]_vars
  /\ [](loginResult = TimedOut => (saveCalls = 0 /\ loginPc = "done"))
  /\ (Polling ~> ~Polling)

\* thirty polls, one of which threw, none with a token: the flow has failed
C14_Witness ==
  /\ loginPc = "done"
  /\ polls = 30
  /\ pollThrew
  /\ loginResult = TimedOut
  /\ saveCalls = 0

\* the login operation processes the answer r of the token endpoint
PollProcesses(r) == loginPc = "poll_answered" /\ loginResp = r

\* 5000ms and its multiples by 1.5 up to the cap of 30000ms, in microseconds:
\* 5000, 7500, 11250, 16875, 25312.5 and 30000 milliseconds
IntervalSteps == <<5000000, 7500000, 11250000, 16875000, 25312500, 30000000>>

\* interval moves from one step to the next, from the last step to itself
SteppedUp ==
  \E k \in 1..Len(IntervalSteps) :
    /\ interval = IntervalSteps[k]
    /\ interval' = IntervalSteps[IF k < Len(IntervalSteps) THEN k + 1 ELSE k]

\* C15: the first poll waits 5000ms; an answer with error "slow_down" (or a
\* "too many requests" text) or a response that is not ok sets the interval
\* of the next poll to min(1.5 x interval, 30000ms), and the loop goes on to
\* its next pass.
C15_SlowDownInterval ==
  /\ []((loginPc = "poll_sleep" /\ polls = 0) => interval = 5000000)
  /\ [][\A r \in {"slow_down", "too_many_requests", "http_error"} :
          PollProcesses(r)
          => /\ SteppedUp
             /\ pollRetries < 30 => (loginPc' = "poll_sleep" /\ loginResult' = NoResult)]_vars

\* the fifth slow_down in a row: the interval is at its cap before the
\* sixth poll
C15_Witness ==
  /\ loginPc = "poll_sleep"
  /\ loginResp = "slow_down"
  /\ polls = 5
  /\ ~pendingOnly
  /\ ~pollThrew
  /\ interval = 30000000

\* C16: when the token endpoint answers k times authorization_pending
\* (0 <= k < 30) and then with an access_token, the identity lookup succeeds
\* and the secret store takes the credential, loginWithBrowser returns the
\* user after one device-code request and k+1 polls (a pending answer does
\* not end the loop, no poll follows the token) and one setPassword call.
C16_PendingThenToken ==
  /\ []((/\ loginPc = "done"
         /\ method = "browser"
         /\ pendingOnly
         /\ loginResp = "written")
        => /\ loginResult = Returned
           /\ deviceRequests = 1
           /\ polls \in 1..30
           /\ polls = pollRetries
           /\ saveCalls = 1
           /\ cred = stringify(saved))
  /\ [][(PollProcesses("authorization_pending") /\ polls < 30)
          => loginPc' = "poll_sleep"]_vars
  /\ [][loginResp = "access_token" => polls' = polls]_vars
  /\ [][(loginPc = "validate_answered" /\ loginResp = "user")
          => (loginPc' = "save" /\ saveCalls' = saveCalls + 1)]_vars

\* the sequence authorization_pending, authorization_pending, access_token
C16_Witness ==
  /\ loginPc = "done"
  /\ method = "browser"
  /\ pendingOnly
  /\ polls = 3
  /\ loginResult = Returned
  /\ saveCalls = 1
  /\ cred # NoPassword

\* C17 (as claimed): an answer with error access_denied or expired_token
\* ends the flow at once, with no further poll; any other error that is
\* neither pending nor slow_down is only shown, and polling goes on.
C17_DenialEndsPolling ==
  [][/\ (PollProcesses("access_denied") \/ PollProcesses("expired_token"))
          => (loginPc' = "done" /\ loginResult'.kind = "err")
     /\ (PollProcesses("other_error") /\ pollRetries < 30)
          => loginPc' = "poll_sleep"]_vars

\* C18: an exception thrown by a poll does not end the device flow: the
\* interval goes to min(1.5 x interval, 30000ms) and, below the ceiling of
\* 30 attempts, the loop goes on to the next poll without a result; a poll
\* that then brings an access_token takes the flow on to validation.
C18_ExceptionDoesNotAbort ==
  /\ [][PollProcesses("network_error")
          => /\ SteppedUp
             /\ pollRetries < 30 => (loginPc' = "poll_sleep" /\ loginResult' = NoResult)]_vars
  /\ [][PollProcesses("access_token")
          => (loginPc' = "validate" /\ loginResult' = NoResult)]_vars

\* a poll threw, a later poll brought the token, and the login succeeded
C18_Witness ==
  /\ loginPc = "done"
  /\ pollThrew
  /\ polls > 1
  /\ loginResult = Returned
  /\ cred # NoPassword

\* the identity lookup of the token has failed and the login has ended
IdentityRejected == loginPc = "done" /\ loginResp = "unauthorized"

C20_SaveFailureIsConfigError ==
  (loginPc = "done" /\ loginResp = "write_failed")
  => /\ loginResult.kind = "err"
     /\ loginResult.err.cls = "ConfigError"
     /\ saveCalls = 1


\* the device-code request of the login in progress has failed
DeviceCodeFailed ==
  loginResp \in {"device_code_http_error", "device_code_network_error"}

\* C21: when the device-code request is answered with a response that is
\* not OK, or rejects, loginWithBrowser has ended with an error; the
\* device-code request was made once, the token endpoint was never asked,
\* open(url) was never called and saveCredentials was never called
C21_DeviceCodeFailureEnds ==
  DeviceCodeFailed =>
    /\ loginPc = "done"
    /\ loginResult = Threw(loginFailure("browser", deviceCodeMessage(loginResp)))
    /\ deviceRequests = 1
    /\ polls = 0
    /\ opens = 0
    /\ saveCalls = 0

C21_Witness ==
  /\ loginResp = "device_code_http_error"
  /\ loginPc = "done"
  /\ LoginFailedWith("Browser authentication failed: Failed to create device code flow")

\* C22: a failure of open(url) does not end the login; the flow goes on to
\* poll the token endpoint
C22_OpenFailureStillPolls ==
  loginResp = "open_failed" => Polling /\ loginResult = NoResult

\* C23: with no credential in the store, a request() call that has ended
\* has thrown the AuthError that tells the caller to log in, and no call
\* has sent its route: none has left initialize() for the transport
C23_NoCredentialNoRequest ==
  cred = NoPassword =>
    \A p \in Callers :
      /\ pc[p] \in {"idle", "init_auth", "done"}
      /\ calls[p] = 0
      /\ pc[p] = "done" => result[p] = Threw(AuthError(MsgNoAuthentication))

C23_Witness ==
  /\ cred = NoPassword
  /\ pc[Caller] = "done"
  /\ result[Caller] = Threw(AuthError(MsgNoAuthentication))
  /\ calls[Caller] = 0

\* isAuthenticated() has returned
AuthenticatedReturned ==
  /\ op = "isAuthenticated"
  /\ loginPc = "done"

\* C24: isAuthenticated() never throws: whatever the secret store and the
\* identity endpoint answer, each step of it goes on or returns a boolean,
\* and it returns true only when the store held a text that was read and
\* parsed and the identity endpoint answered with the user
C24_IsAuthenticatedNeverThrows ==
  /\ [](AuthenticatedReturned =>
          /\ loginResult.kind = "ok"
          /\ loginResult.value \in BOOLEAN
          /\ loginResult.value =>
               /\ cred # NoPassword
               /\ Parsable(cred)
               /\ loaded = parse(cred)
               /\ loginResp = "user")
  /\ [][(op = "isAuthenticated" /\ loginPc = "status_read")
          => \/ loginPc' = "status_identity" /\ loaded' # NoCredentials
             \/ loginPc' = "done" /\ loginResult' = ReturnedValue(FALSE)]_vars
  /\ [][(op = "isAuthenticated" /\ loginPc = "status_identity")
          => /\ loginPc' = "done"
             /\ loginResult' = ReturnedValue(loginResp' = "user")]_vars

C24_Witness ==
  /\ AuthenticatedReturned
  /\ loginResult = ReturnedValue(FALSE)
  /\ loaded # NoCredentials
  /\ loginResp = "unauthorized"

\* logout() has returned
LogoutReturned ==
  /\ op = "logout"
  /\ loginPc = "done"

\* C25: logout() never throws and returns a boolean; it returns false
\* exactly when deletePassword failed; when it returns true the store is
\* empty and octokit is dropped, whether or not there was an entry, so a
\* second logout() returns true as well
C25_LogoutIdempotent ==
  /\ [](LogoutReturned =>
          /\ loginResult.kind = "ok"
          /\ loginResult.value \in BOOLEAN
          /\ loginResult.value = (loginResp # "delete_failed")
          /\ loginResult.value => cred = NoPassword /\ ~authOctokit)
  /\ [][(op = "logout" /\ loginPc = "logout_delete" /\ loginResp' = "deleted")
          => /\ loginPc' = "done"
             /\ loginResult' = ReturnedValue(TRUE)
             /\ cred' = NoPassword]_vars
  /\ [][(op = "logout" /\ loginPc = "logout_delete" /\ loginResp' = "delete_failed")
          => /\ loginPc' = "done"
             /\ loginResult' = ReturnedValue(FALSE)
             /\ cred' = cred]_vars

C25_Witness ==
  /\ history = <<"logout", "logout">>
  /\ LogoutReturned
  /\ loginResult = ReturnedValue(TRUE)
  /\ loginResp = "deleted"
  /\ cred = NoPassword

\* C26: a getCredentials() that reads the store right after a
\* saveCredentials(c) that wrote it returns an object deep-equal to c,
\* for every c: with either method, and with or without a username
C26_CredentialRoundTrip ==
  [][(loginResp = "written" /\ loginResp' = "read")
       => /\ loaded' # NoCredentials
          /\ deepEqual(loaded', saved)]_vars

C26_Witness ==
  /\ loginResp = "read"
  /\ saved \in AuthCredentials
  /\ cred = stringify(saved)
  /\ saved.username = UndefinedValue
  /\ saved.method = "browser"
  /\ DOMAIN loaded = {"token", "method"}
  /\ deepEqual(loaded, saved)

\* a login operation has returned the user
LoginReturned ==
  /\ op \in {"loginWithToken", "loginWithBrowser"}
  /\ loginPc = "done"
  /\ loginResult = Returned

\* the credentials a login that validates the token t by the method m saves
NewCredentials(t, m) == [token |-> t, username |-> loginOf(t), method |-> m]

\* C27: through any sequence of logins and logouts the one entry of the
\* store is empty or one whole credentials record (or the unreadable text
\* it held from the start); when a login has returned the entry is the
\* record of the token just validated, every property of it new; when a
\* logout has returned true the entry is gone; and nothing else writes
C27_AtMostOneCredential ==
  /\ [](\/ cred = NoPassword
        \/ cred = JunkPassword
        \/ Parsable(cred) /\ parse(cred) \in AuthCredentials)
  /\ [](LoginReturned => cred = stringify(NewCredentials(token, method)))
  /\ []((LogoutReturned /\ loginResult.value) => cred = NoPassword)
  /\ [][cred' # cred
          => \/ loginPc = "save" /\ cred' = stringify(NewCredentials(token, method))
             \/ loginPc = "logout_delete" /\ cred' = NoPassword]_vars

C27_Witness ==
  /\ history = <<"loginWithToken", "loginWithBrowser">>
  /\ LoginReturned
  /\ saveCalls = 2
  /\ token = "t2"
  /\ cred = stringify(NewCredentials("t2", "browser"))

\* C29: when getAuthStatus() has found a session and the user answers no,
\* the command returns at once: getAuthStatus is the only operation of
\* AuthService it has called, nothing was written or deleted, and the
\* store only ever changes inside a login or a logout
C29_DeclinedLoginChangesNothing ==
  /\ [][cmd = "answered_no"
          => /\ cmd' = "declined"
             /\ history' = history
             /\ cred' = cred
             /\ loginPc' = "idle"]_vars
  /\ [](cmd \in {"answered_no", "declined"}
          => /\ history = <<"getAuthStatus">>
             /\ loginResult.value # NoUser
             /\ cred = stringify(SavedLogin)
             /\ saveCalls = 0
             /\ deviceRequests = 0)
  /\ [][cred' # cred => op \in {"logout", "loginWithToken", "loginWithBrowser"}]_vars

C29_Witness ==
  /\ cmd = "declined"
  /\ history = <<"getAuthStatus">>
  /\ loginResult = ReturnedValue(UserOf(SavedLogin))
  /\ cred = stringify(SavedLogin)

\* C28: the approve command sends at most one approval; with force unset
\* and a CI status of failure or pending it has prompted once and sends
\* the approval only on the answer yes; on the answer no it sends none and
\* returns false; with force set it never prompts and sends the approval
\* as soon as it has the pull request
C28_ApproveNeedsConfirmation ==
  /\ [](approve.approvals <= 1 /\ approve.prompts <= 1)
  /\ []((~approve.force /\ approve.ciStatus \in {"failure", "pending"})
          => /\ approve.prompts = 1
             /\ approve.approvals = 1 <=> approve.shouldApprove = "yes")
  /\ [](approve.shouldApprove = "no"
          => /\ approve.approvals = 0
             /\ approve.pc = "done"
             /\ approve.result = "false")
  /\ [](approve.force
          => /\ approve.prompts = 0
             /\ approve.ciStatus \in CiStatuses => approve.approvals = 1)
  /\ [][approve.pc = "confirm" => approve'.approvals = approve.approvals
                                   \/ approve'.shouldApprove = "yes"]_vars

C28_Witness ==
  /\ ~approve.force
  /\ approve.ciStatus = "pending"
  /\ approve.shouldApprove = "no"
  /\ approve.approvals = 0
  /\ approve.result = "false"

\* C30 (as claimed): a raw failure with status 429, plain object or Error
\* instance, is classified as a RateLimitError whose reset time is the
\* x-ratelimit-reset header of the failure when it has one, and one hour
\* after the time of the classification otherwise
C30_RateLimitFor429 ==
  (/\ classified # << >>
   /\ IsRaw(failure.e)
   /\ failure.e.status = 429)
  => /\ classified[1].cls = "RateLimitError"
     /\ IF Truthy(failure.headers.reset)
          THEN classified[1].reset = ParseInt(failure.headers.reset)
          ELSE \E t \in 0..now : classified[1].reset = t + DefaultResetSeconds

(***************************************************************************)
(* The wait estimate of a RateLimitError.                                  *)
(***************************************************************************)
\* Math.ceil(a / b) for b > 0
CeilDiv(a, b) == -((-a) \div b)

\* the N of "Resets in N minutes" in the message of the pre-request check,
\* at time t (seconds)
resetsInMinutes(resetTimestamp, t) == CeilDiv(resetTimestamp - t, 60)

\* getTimeUntilReset() called at time t: the number it prints and its unit
getTimeUntilReset(resetTimestamp, t) ==
  LET seconds == resetTimestamp - t
  IN IF seconds < 60 THEN [n |-> seconds, unit |-> "second"]
                     ELSE [n |-> CeilDiv(seconds, 60), unit |-> "minute"]

\* max(0, resetAt - now)
waitHint(resetAt, t) == IF resetAt > t THEN resetAt - t ELSE 0

\* C31 (as claimed): whenever request() has thrown a RateLimitError, the
\* wait it reports at the current time is max(0, resetAt - now), in the
\* unit it is given in: never negative, also once the reset time is past
C31_WaitNeverNegative ==
  \A p \in Callers :
    (/\ result[p].kind = "err"
     /\ result[p].err.cls = "RateLimitError"
     /\ result[p].err.reset # NaN)
    => LET r == result[p].err.reset
           w == getTimeUntilReset(r, now)
       IN /\ w.n >= 0
          /\ w.unit = "second" => w.n = waitHint(r, now)
          /\ w.unit = "minute" => w.n = CeilDiv(waitHint(r, now), 60)
          /\ resetsInMinutes(r, now) = CeilDiv(waitHint(r, now), 60)

\* C32: the step of request() that processes a response with a complete
\* header set, a success or a failure, leaves the tracked state equal to
\* that header set, and it is the step that returns, throws or starts the
\* backoff; the pre-request check of the next call reads that state: it
\* throws, with the tracked reset time, exactly when remaining is 0
C32_TrackedAfterEveryResponse ==
  /\ [][\A p \in Callers :
          (Processes(p) /\ WellFormed(resp[p].headers))
          => /\ rateLimitInfo' = HeaderSetAsState(resp[p].headers)
             /\ pc'[p] \in {"done", "sleep"}]_vars
  /\ [][\A p \in Callers :
          (Called(p) /\ initialized /\ octokit)
          => IF rateLimitInfo.remaining = 0
               THEN /\ pc'[p] = "done"
                    /\ IsRateLimitResult(result'[p])
                    /\ result'[p].err.reset = rateLimitInfo.resetTimestamp
               ELSE pc'[p] = "call"]_vars

\* a 404 with complete headers used the last unit of the quota: request()
\* has thrown, and the tracked state is the header set of that failure
C32_Witness ==
  /\ pc[Caller] = "done"
  /\ answers[Caller] = <<404>>
  /\ result[Caller].kind = "err"
  /\ result[Caller].err.cls = "NotFoundError"
  /\ srv.remaining = 0
  /\ rateLimitInfo = [limit |-> SrvLimit, remaining |-> 0,
                      resetTimestamp |-> srv.reset, isLimited |-> TRUE]

\* the failure p's call is about to process is one the claim says is not
\* retried: retry is switched off, or the status is no 5xx
NotRetried(p) ==
  /\ resp[p].status # 200
  /\ \/ ~opts[p].retry
     \/ resp[p].status \notin 500..599

\* C33: a failure with a status outside 500..599, and any failure when
\* options.retry is false, ends the request() call in the step that
\* processes it: no backoff sleep and no further transport call, and the
\* call throws the error of the taxonomy the classifier makes of the
\* failure; so such a call has made one transport call
C33_NoRetryOutsideServerErrors ==
  /\ [][\A p \in Callers :
          (Processes(p) /\ NotRetried(p))
          => /\ pc'[p] = "done"
             /\ sleeps'[p] = sleeps[p]
             /\ calls'[p] = calls[p]
             /\ retries'[p] = retries[p]
             /\ result'[p].kind = "err"
             /\ result'[p].err.cls \in TypedClasses
             /\ result'[p].err =
                  requestThrows(RawError(resp[p].cls, resp[p].status, resp[p].msg),
                                resp[p].headers, rateLimitInfo', now)]_vars
  /\ [](\A p \in Callers :
          (/\ pc[p] = "done"
           /\ answers[p] # << >>
           /\ \/ ~opts[p].retry
              \/ answers[p][1] \notin 500..599)
          => /\ Len(answers[p]) = 1
             /\ calls[p] = 1
             /\ sleeps[p] = << >>)

C33_Witness ==
  /\ pc[Caller] = "done"
  /\ ~opts[Caller].retry
  /\ opts[Caller].maxRetries = 3
  /\ answers[Caller] = <<500>>
  /\ calls[Caller] = 1
  /\ sleeps[Caller] = << >>
  /\ result[Caller].kind = "err"

(***************************************************************************)
(* SpecSignOut: a caller of request() on the one client while another      *)
(* caller signs out with logout(); the client reads AuthService only       *)
(* inside initialize().                                                    *)
(***************************************************************************)
NextSignOut ==
  \/ Request(Caller, ConcurrentOptions)
  \/ InitAuthDone(Caller)
  \/ InitOctokitDone(Caller)
  \/ InitFetchDone(Caller)
  \/ ServerAnswer(Caller, PlainResponses)
  \/ Deliver(Caller)
  \/ WakeUp(Caller)
  \/ Return(Caller)
  \/ Logout
  \/ DeleteAnswer
  \/ NextOperation

SpecSignOut == Init /\ [][NextSignOut]_vars

\* the last operation of AuthService was a logout() that returned true
SignedOut ==
  /\ op = "logout"
  /\ loginPc \in {"done", "idle"}
  /\ loginResult = ReturnedValue(TRUE)

\* C34: a request() called after logout() has returned true, with no login
\* since, sends no transport call: it either enters initialize() or fails
\* at once with an AuthError, also on a client initialized before the logout
C34_NoRequestAfterLogout ==
  [][\A p \in Callers :
       (SignedOut /\ Called(p))
       => /\ calls'[p] = 0
          /\ pc'[p] \in {"init_auth", "done"}
          /\ pc'[p] = "done" => /\ result'[p].kind = "err"
                                /\ result'[p].err.cls = "AuthError"]_vars

\* p's initialize() ends with a GET /rate_limit that failed: the tracked
\* state is still the one of the constructor
FetchFailed(p) ==
  /\ pc[p] = "init_fetch"
  /\ pc'[p] # "init_fetch"
  /\ rateLimitInfo = InitialRateLimitInfo
  /\ rateLimitInfo' = InitialRateLimitInfo

\* C35: when the GET /rate_limit of initialize() fails, the request() call
\* that ran initialize() goes on to the transport: its first call is sent
\* and nothing is thrown on account of the state nobody has filled in
C35_UsableAfterFailedFetch ==
  [][\A p \in Callers :
       FetchFailed(p) => /\ initialized'
                         /\ pc'[p] = "call"
                         /\ calls'[p] = 1
                         /\ result'[p] = NoResult]_vars

\* the request() calls that are inside initialize()
Initializing == {p \in Callers : pc[p] \in {"init_auth", "init_octokit", "init_fetch"}}

\* C36: of the request() calls in progress at once on a client that is not
\* yet initialized at most one runs initialize(), and an initialize() that
\* finishes after a response of another call was processed leaves the
\* tracked state as that response left it
C36_InitializedOnce ==
  /\ [](Cardinality(Initializing) <= 1)
  /\ [][\A p \in Callers :
          (/\ pc[p] = "init_fetch"
           /\ pc'[p] # "init_fetch"
           /\ rateLimitInfo # InitialRateLimitInfo
           /\ \E q \in Callers \ {p} : answers[q] # << >> /\ pc[q] # "answered")
          => rateLimitInfo' = rateLimitInfo]_vars

\* the answers of the token endpoint that slow the polling down
SlowingAnswers == {"slow_down", "too_many_requests", "http_error", "network_error"}

\* C37: while pollForToken runs, interval is 5000ms before the first poll
\* and always one of 5000ms x 1.5^k up to the cap of 30000ms; no step of the
\* loop lowers it; an answer authorization_pending, an error code the loop
\* does not know and any answer outside slow_down, a "too many requests"
\* text, a response that is not ok and an exception leave it as it is, and
\* each of those four takes it to min(1.5 x interval, 30000ms)
C37_IntervalMonotoneAndCapped ==
  /\ [](Polling => /\ \E k \in 1..Len(IntervalSteps) : interval = IntervalSteps[k]
                   /\ interval >= Us(InitialIntervalMs)
                   /\ interval <= Us(MaxIntervalMs)
                   /\ polls = 0 => interval = Us(InitialIntervalMs))
  /\ [][Polling => interval' >= interval]_vars
  /\ [][\A r \in PollOutcomes \ SlowingAnswers :
          PollProcesses(r) => interval' = interval]_vars
  /\ [][(Polling /\ interval' # interval)
          => /\ loginPc = "poll_answered"
             /\ loginResp \in SlowingAnswers
             /\ SteppedUp]_vars

\* three polls, one of them slowed down, the last one answered
\* authorization_pending: the interval is still the 7500ms of the slow-down
C37_Witness ==
  /\ loginPc = "poll_sleep"
  /\ polls = 3
  /\ loginResp = "authorization_pending"
  /\ ~pendingOnly
  /\ ~pollThrew
  /\ interval = 7500000

\* a login operation has thrown
LoginFailed ==
  /\ op \in {"loginWithBrowser", "loginWithToken"}
  /\ loginPc = "done"
  /\ loginResult.kind = "err"

\* the failures the login can end in before it reaches saveCredentials: the
\* device-code request failed, the polling timed out, the identity lookup
\* of the token failed
FailedBeforeSave ==
  \/ DeviceCodeFailed
  \/ loginResult = TimedOut
  \/ loginResp \in {"unauthorized", "unreachable"}

\* C38: a login that fails leaves the secret store as it was: while a
\* login runs the entry changes only when setPassword answers that it has
\* written, and a login that got that answer does not fail; a login that
\* fails on the device-code request, on the polling timeout or on the
\* identity lookup has called neither setPassword nor deletePassword; so
\* after a failed login getCredentials() returns the credential stored
\* before it, or null when there was none
C38_FailedLoginLeavesStore ==
  /\ [][(op \in {"loginWithBrowser", "loginWithToken"} /\ cred' # cred)
          => /\ loginPc = "save"
             /\ loginResp' = "written"]_vars
  /\ [][(loginPc # "done" /\ loginPc' = "done" /\ loginResult'.kind = "err")
          => /\ cred' = cred
             /\ saveCalls' = saveCalls]_vars
  /\ [](LoginFailed
          => /\ loginResp # "written"
             /\ cred \in StoredAtStart
             /\ getCredentials(cred, TRUE) \in {NoCredentials, SavedLogin}
             /\ cred # NoPassword => getCredentials(cred, TRUE) = SavedLogin
             /\ FailedBeforeSave => saveCalls = 0)

\* the browser login of a user who has a credential stored timed out after
\* its 30 polls
C38_Witness ==
  /\ LoginFailed
  /\ loginResult = TimedOut
  /\ polls = MaxPollRetries
  /\ saveCalls = 0
  /\ cred = stringify(SavedLogin)
  /\ getCredentials(cred, TRUE) = SavedLogin

\* getRateLimitInfo(): a copy of the tracked state
getRateLimitInfo == rateLimitInfo

\* C39: in every state, from construction on, the flag getRateLimitInfo()
\* returns agrees with the counter it returns: isLimited is true exactly
\* when remaining <= 0
C39_FlagMatchesCounter ==
  getRateLimitInfo.isLimited <=> LeqZero(getRateLimitInfo.remaining)
====
